---- MODULE Spec2Model ----
(***************************************************************************)
(* The data-access layer of gogo-delivery (src/src/db.rs): carts, the      *)
(* checkout that turns a cart into an order, the order lifecycle (take,    *)
(* complete, cancel), feedback, favorites, the catalog, and the reads that *)
(* merge several fetches (user_cart, user_favorites, orders, user_orders). *)
(*                                                                         *)
(* The relational store is the only shared state.  Every statement the     *)
(* Client sends is one atomic step of the store; a handler that sends      *)
(* several statements is a task that other tasks interleave with between   *)
(* its statements.  The statements' texts (sql/*.sql) are not among the    *)
(* sources: the sql_* operators model them from the specification and      *)
(* from the constraint names the code's comments give.                     *)
(***************************************************************************)
EXTENDS Integers, Sequences, FiniteSets, TLC

(* ----------------------------- bounds ---------------------------------- *)

\* Cart lines ever inserted (the serial of the cart table stops here).
MaxCartId == 2
\* Orders ever inserted (the serial of the orders table stops here).
MaxOrders == 2
\* Favorites ever inserted (the serial of the favorites table stops here).
MaxFavoriteId == 2
\* Food rows a sorted read fetches (the largest food id of the catalog).
MaxFoodId == 3
\* Users ever inserted (the serial of the users table stops here).
MaxUserId == 4
\* Addresses ever inserted (the serial of the addresses table stops here).
MaxAddressId == 3
\* The notifications a behaviour may store.
MaxNotificationId == 3

(* ------------------------- the fixed tables ---------------------------- *)

\* SQL NULL / Option::None for identifiers and timestamps (serials start at 1).
NULL == 0

\* The ids of the food the catalog may hold.
Foods == {1, 2}
\* Quantities a cart line may carry.
Counts == {1, 2}
\* Values of the store's clock, as an order's completed_time.
Times == {1, 2}
\* Concurrently running handlers.
Tasks == {1, 2}
OrderIds == 1..MaxOrders

(* ------------------------------ results -------------------------------- *)

\* Result<T, E>: kind is "ok" or the error; val is the Ok value.
Ok(v) == [kind |-> "ok", val |-> v]
Err(e) == [kind |-> e, val |-> NULL]
\* tokio_postgres::Error: the statement failed (connection, constraint, no row).
StoreError == "store failure"
EmptyCartError == "user cart is empty"
MergeError == "database was changed during data merging"
NoContentError == "either rating or comment must be provided"
NoOrderError == "there is no completed order with such ID that owned by the user"
AccessDenied == "access denied"
OwnRoleError == "you cannot change role for yourself"
UploadError == "the upload cannot be read"
AuthenticationError == "authentication error"

(* ------------------------------- state --------------------------------- *)

VARIABLES
    cart,         \* rows of the cart table
    nextCartId,   \* the cart table's serial
    orders,       \* rows of the orders table
    nextOrderId,  \* the orders table's serial
    order_food,   \* rows of the order line-item table
    feedbacks,    \* rows of the feedback table
    task,         \* the multi-statement handlers in flight: position and locals
    ret,          \* what the handler that returned last returned
    before,       \* history: the store when the checkout in progress was called
    took,         \* history: the (user, order) pairs take_order returned true for
    favorites,    \* rows of the favorites table
    nextFavoriteId,  \* the favorites table's serial
    categories,   \* the categories table: the ids of its rows
    food_category,   \* the food table: id -> category of its rows
    food_columns,    \* the food table: id -> title and count of its rows
    scene,        \* which handlers the callers use in this behaviour
    user_table,   \* rows of the users table: id, username, role
    nextUserId,   \* the users table's serial
    addresses,    \* rows of the addresses table: id, owning user
    nextAddressId,   \* the addresses table's serial
    notifications,   \* rows of the notifications table: id, user notified
    nextNotificationId  \* the notifications table's serial

vars == <<cart, nextCartId, orders, nextOrderId, order_food, feedbacks, task, ret,
          before, took, favorites, nextFavoriteId, categories, food_category,
          food_columns, scene, user_table, nextUserId, addresses, nextAddressId,
          notifications, nextNotificationId>>
\* The tables and the choice that the cart, checkout and order handlers leave alone.
catalog == <<categories, food_category, food_columns>>
accounts == <<user_table, nextUserId, addresses, nextAddressId>>
notes == <<notifications, nextNotificationId>>
extra == <<favorites, nextFavoriteId, categories, food_category, food_columns, scene,
           accounts, notes>>
store == <<cart, nextCartId, orders, nextOrderId, order_food, feedbacks>>

\* The users table as username -> id.  This layer never deletes a user.
users ==
    [n \in {u.username : u \in user_table} |->
        (CHOOSE u \in user_table : u.username = n).id]
UserIds == {u.id : u \in user_table}
\* Usernames a caller may present: the known ones and one that resolves to no user.
UserNames == DOMAIN users \cup {"nobody"}
\* The addresses table as id -> owning user.
address_owner ==
    [a \in {r.id : r \in addresses} |-> (CHOOSE r \in addresses : r.id = a).user_id]
Addresses == DOMAIN address_owner

\* Option<T>: None is the empty set, Some(x) is {x}.
None == {}
Some(x) == {x}
\* (mutant: an absent value passes for a present one)
is_none_never(option) == FALSE
is_none(option) == option = {}

\* A Feedback that carries nothing.
NoFeedback == [order_id |-> NULL, rating |-> None, comment |-> None]

\* A handler slot that runs nothing.
IdleTask ==
    [op |-> "idle", pc |-> "idle", user_id |-> NULL, address_id |-> NULL,
     food |-> {}, cart_items |-> <<>>, order_id |-> NULL, inserted |-> 0,
     feedback |-> NoFeedback, filter |-> "", rows |-> {}, indexed_orders |-> <<>>,
     items |-> {}, listed |-> <<>>, categories |-> {}, sort_by |-> "",
     sort_order |-> "", current_user |-> "", username |-> "", role |-> "",
     id |-> NULL, category_id |-> NULL, password |-> ""]

\* No checkout was called last.
NoCall == [user_id |-> NULL, cart |-> {}, orders |-> {}, order_food |-> {},
           ret |-> [op |-> "none", kind |-> "ok"]]

\* The title and count a food row is added with: titles are named by their
\* rank in the order of String::cmp, so the food's id is its title's rank.
FoodColumns(f) == [title |-> f, count |-> 1]

\* The users signed up, ann a customer and bob a rider, each with an address.
InitAccounts ==
    /\ user_table = {[id |-> 1, username |-> "ann", role |-> "Customer"],
                     [id |-> 2, username |-> "bob", role |-> "Rider"]}
    /\ nextUserId = 3
    /\ addresses = {[id |-> 1, user_id |-> 1], [id |-> 2, user_id |-> 2]}
    /\ nextAddressId = 3
    /\ notifications = {}
    /\ nextNotificationId = 1

\* The catalog the managers have filled: one category with all the food.
InitCatalog ==
    /\ categories = {1}
    /\ food_category = [f \in Foods |-> 1]
    /\ food_columns = [f \in Foods |-> FoodColumns(f)]

\* No favorites, the catalog filled, callers free to use every handler.
InitExtra ==
    /\ InitAccounts
    /\ favorites = {}
    /\ nextFavoriteId = 1
    /\ InitCatalog
    /\ scene = "any"

\* The state after construction: an empty store, nothing in flight.
InitEmpty ==
    /\ InitExtra
    /\ cart = {}
    /\ nextCartId = 1
    /\ orders = {}
    /\ nextOrderId = 1
    /\ order_food = {}
    /\ feedbacks = {}
    /\ task = [t \in Tasks |-> IdleTask]
    /\ ret = [op |-> "none", kind |-> "ok", val |-> NULL, caller |-> "", id |-> NULL]
    /\ before = NoCall
    /\ took = {}

Init == InitEmpty

(* ------------------------ helpers of the Client ------------------------ *)

\* select/user_by_name.sql [username]: the rows of that username.
sql_select_user_by_name(username) == {u \in user_table : u.username = username}

\* (mutant: query_one takes a row even when several match)
query_one_any(rows) ==
    IF rows # {} THEN Ok(CHOOSE r \in rows : TRUE) ELSE Err(StoreError)

\* Client::query_one: the row when exactly one matches, else an error.
query_one(rows) ==
    IF Cardinality(rows) = 1 THEN Ok(CHOOSE r \in rows : TRUE) ELSE Err(StoreError)

\* Client::user_by_name: query_one(select/user_by_name.sql).
user_by_name(username) == query_one(sql_select_user_by_name(username))

\* (mutant: a username of no user resolves to no id instead of failing)
user_id_by_name_or_null(username) ==
    LET user == user_by_name(username) IN
    IF user.kind = "ok" THEN Ok(user.val.id) ELSE Ok(NULL)

\* Client::user_id_by_name: user_by_name(username).map(|user| user.id).
user_id_by_name(username) ==
    LET user == user_by_name(username) IN
    IF user.kind = "ok" THEN Ok(user.val.id) ELSE user

\* (mutant: true whatever the number of rows)
modified_always(modified_rows) == modified_rows >= 0

\* .map(|modified_rows| modified_rows != 0)
modified(modified_rows) == modified_rows # 0

\* The rows of a user's cart.
UserCart(user_id) == {c \in cart : c.user_id = user_id}
\* The (food, quantity) pairs of a set of cart rows or line items.
Pairs(rows) == {<<r.food_id, r.count>> : r \in rows}
\* The elements of a sequence.
Range(s) == {s[i] : i \in DOMAIN s}

(* --------------------- the statements (sql/*.sql) ---------------------- *)

\* (mutant: the cart has no constraint)
food_per_customer_unchecked(user_id, food_id) == TRUE

\* check of constraint 'food_per_customer': one cart row per (user, food).
food_per_customer(user_id, food_id) ==
    \A c \in cart : ~(c.user_id = user_id /\ c.food_id = food_id)

\* insert/user_cart.sql [user_id, food_id, count]: the row inserted; id and
\* add_time are the store's (the serial and its clock, which grows with it).
sql_insert_user_cart(user_id, food_id, count) ==
    [id |-> nextCartId, user_id |-> user_id, food_id |-> food_id,
     count |-> count, add_time |-> nextCartId]

\* delete/user_cart.sql [user_id, id]: the rows deleted.
sql_delete_user_cart(user_id, id) ==
    {c \in cart : c.user_id = user_id /\ c.id = id}

\* delete/user_cart_all.sql [user_id]: the rows deleted.
sql_delete_user_cart_all(user_id) == {c \in cart : c.user_id = user_id}

\* select/food_in_user_cart.sql [user_id]: the food rows of the user's cart.
sql_select_food_in_user_cart(user_id) ==
    {c.food_id : c \in {x \in cart : x.user_id = user_id}}

\* select/user_cart.sql [user_id]: the user's cart rows.
sql_select_user_cart(user_id) == {c \in cart : c.user_id = user_id}

\* (mutant: the insert takes any address)
user_order_accepted_any_address(address_id, user_id) == TRUE

\* Whether insert/user_order.sql [customer, address, user] inserts a row: the
\* address is one of the user's (the statement's third parameter).
user_order_accepted(address_id, user_id) ==
    \E a \in addresses : a.id = address_id /\ a.user_id = user_id

\* insert/user_order.sql [customer, address, user]: the order header inserted:
\* customer = acting user, rider unset, completion unset.
sql_insert_user_order(customer_id, address_id, user_id) ==
    [id |-> nextOrderId, customer_id |-> customer_id, address_id |-> address_id,
     rider_id |-> NULL, completed_time |-> NULL]

\* Whether insert/order_food.sql [order_id, food_id, count] is accepted: the
\* order must exist (foreign key) and hold no line for the food yet
\* (constraint 'food_per_order').
order_food_accepted(order_id, food_id) ==
    /\ \E o \in orders : o.id = order_id
    /\ \A i \in order_food : ~(i.order_id = order_id /\ i.food_id = food_id)

\* (mutant: every line item is written to the first order)
sql_insert_order_food_first_order(order_id, food_id, count) ==
    [order_id |-> 1, food_id |-> food_id, count |-> count]

\* insert/order_food.sql [order_id, food_id, count]: the row inserted.
sql_insert_order_food(order_id, food_id, count) ==
    [order_id |-> order_id, food_id |-> food_id, count |-> count]

(* ------------------------------ the cart ------------------------------- *)

\* (mutant: a food whose category was not fetched is left out of the map)
query_food_merge_skipping(fetched, indexed_food) ==
    Ok({f \in indexed_food : food_category[f] \in fetched})

\* The loop of query_food over the food rows fetched, given the categories
\* fetched before them: a food whose category is not among these is the
\* consistency fault.
query_food_merge(fetched, indexed_food) ==
    IF \A f \in indexed_food : food_category[f] \in fetched
    THEN Ok(indexed_food) ELSE Err(MergeError)

\* HashMap<ID, Food> built by query_food: every food row's category must be
\* among the categories fetched before, else the consistency fault.
query_food(food_rows) == query_food_merge(categories, food_rows)

\* indexed_cart.sort_by(|lhs, rhs| SortCartBy::AddTime.cmp(lhs, rhs)), Ascending.
RECURSIVE sort_by_add_time(_)
sort_by_add_time(rows) ==
    IF rows = {} THEN <<>>
    ELSE LET first == CHOOSE x \in rows : \A y \in rows : x.add_time <= y.add_time
         IN <<first>> \o sort_by_add_time(rows \ {first})

\* (mutant: a row whose food is not in the map is left out of the result)
RECURSIVE user_cart_merge_skipping(_, _)
user_cart_merge_skipping(indexed_cart, food) ==
    IF indexed_cart = <<>> THEN [fault |-> FALSE, items |-> <<>>]
    ELSE LET item == Head(indexed_cart)
             rest == user_cart_merge_skipping(Tail(indexed_cart), food)
         IN IF item.food_id \notin food THEN rest
            ELSE [fault |-> FALSE, items |-> <<item>> \o rest.items]

\* The merge loop of user_cart: each cart row takes (removes) its food from
\* the map; a row whose food is not there is the consistency fault.
RECURSIVE user_cart_merge(_, _)
user_cart_merge(indexed_cart, food) ==
    IF indexed_cart = <<>> THEN [fault |-> FALSE, items |-> <<>>]
    ELSE LET item == Head(indexed_cart) IN
         IF item.food_id \notin food THEN [fault |-> TRUE, items |-> <<>>]
         ELSE LET rest == user_cart_merge(Tail(indexed_cart), food \ {item.food_id})
              IN IF rest.fault THEN rest
                 ELSE [fault |-> FALSE, items |-> <<item>> \o rest.items]

\* A handler returns: its result, with the caller and the id it was called
\* with (kept for the order lifecycle handlers).
ReturnTo(op, username, id, result) ==
    ret' = [op |-> op, kind |-> result.kind, val |-> result.val,
            caller |-> username, id |-> id]
Return(op, result) == ReturnTo(op, "", NULL, result)

\* Client::add_user_cart_item: user lookup, then one insert returning the id.
add_user_cart_item(username, food_id, count) ==
    LET user_id == user_id_by_name(username) IN
    /\ UNCHANGED <<orders, nextOrderId, order_food, feedbacks, task, took>>
    /\ IF user_id.kind # "ok"
       THEN /\ Return("add_user_cart_item", user_id)
            /\ UNCHANGED <<cart, nextCartId>>
       ELSE \/ /\ food_per_customer(user_id.val, food_id)
               /\ food_id \in DOMAIN food_category
               /\ nextCartId <= MaxCartId
               /\ cart' = cart \cup {sql_insert_user_cart(user_id.val, food_id, count)}
               /\ nextCartId' = nextCartId + 1
               /\ Return("add_user_cart_item", Ok(nextCartId))
            \/ /\ Return("add_user_cart_item", Err(StoreError))
               /\ UNCHANGED <<cart, nextCartId>>

\* Client::delete_user_cart_item: user lookup, then one delete.
delete_user_cart_item(username, id) ==
    LET user_id == user_id_by_name(username) IN
    /\ UNCHANGED <<nextCartId, orders, nextOrderId, order_food, feedbacks, task, took>>
    /\ IF user_id.kind # "ok"
       THEN /\ Return("delete_user_cart_item", user_id)
            /\ UNCHANGED cart
       ELSE \/ LET deleted == sql_delete_user_cart(user_id.val, id) IN
               /\ cart' = cart \ deleted
               /\ Return("delete_user_cart_item", Ok(modified(Cardinality(deleted))))
            \/ /\ Return("delete_user_cart_item", Err(StoreError))
               /\ UNCHANGED cart

(* ----------------------------- checkout -------------------------------- *)

AllIdle == \A t \in Tasks : task[t].pc = "idle"

\* The handler of slot t returns: the slot is free again.
TaskReturn(t, op, result) ==
    /\ task' = [task EXCEPT ![t] = IdleTask]
    /\ Return(op, result)
\* The same, keeping the caller and the id the handler was called with.
TaskReturnTo(t, op, username, id, result) ==
    /\ task' = [task EXCEPT ![t] = IdleTask]
    /\ ReturnTo(op, username, id, result)

\* make_order_from_user_cart, up to the first fetch of user_cart: the user
\* lookups and query_food(food_in_user_cart.sql).
make_order_start(t, username, address_id) ==
    LET user_id == user_id_by_name(username) IN
    /\ task[t].pc = "idle"
    /\ UNCHANGED <<store, took>>
    /\ IF user_id.kind # "ok"
       THEN TaskReturn(t, "make_order_from_user_cart", user_id)
       ELSE \/ LET food == query_food(sql_select_food_in_user_cart(user_id.val)) IN
               IF food.kind # "ok"
               THEN TaskReturn(t, "make_order_from_user_cart", food)
               ELSE /\ task' = [task EXCEPT ![t] =
                        [IdleTask EXCEPT !.op = "make_order_from_user_cart",
                                         !.pc = "read_cart",
                                         !.user_id = user_id.val,
                                         !.address_id = address_id,
                                         !.food = food.val]]
                    /\ UNCHANGED ret
            \/ TaskReturn(t, "make_order_from_user_cart", Err(StoreError))

\* (mutant: the empty-cart check never fires)
is_empty_never(cart_items) == FALSE

\* cart_items.is_empty()
is_empty(cart_items) == cart_items = <<>>

\* The rest of user_cart (the cart rows, sorted and merged with the food) and
\* the empty-cart check.
make_order_read_cart(t) ==
    LET indexed_cart == sort_by_add_time(sql_select_user_cart(task[t].user_id))
        merged == user_cart_merge(indexed_cart, task[t].food) IN
    /\ task[t].op = "make_order_from_user_cart"
    /\ task[t].pc = "read_cart"
    /\ UNCHANGED <<store, took>>
    /\ \/ IF merged.fault
          THEN TaskReturn(t, "make_order_from_user_cart", Err(MergeError))
          ELSE IF is_empty(merged.items)
          THEN TaskReturn(t, "make_order_from_user_cart", Err(EmptyCartError))
          ELSE /\ task' = [task EXCEPT ![t].pc = "insert_order",
                                       ![t].cart_items = merged.items]
               /\ UNCHANGED ret
       \/ TaskReturn(t, "make_order_from_user_cart", Err(StoreError))

\* query_one(insert/user_order.sql, [user_id, order.address_id, user_id]).
make_order_insert_order(t) ==
    /\ task[t].op = "make_order_from_user_cart"
    /\ task[t].pc = "insert_order"
    /\ UNCHANGED <<cart, nextCartId, order_food, feedbacks, took>>
    /\ \/ /\ nextOrderId <= MaxOrders
          /\ user_order_accepted(task[t].address_id, task[t].user_id)
          /\ orders' = orders \cup {sql_insert_user_order(
                 task[t].user_id, task[t].address_id, task[t].user_id)}
          /\ nextOrderId' = nextOrderId + 1
          /\ task' = [task EXCEPT ![t].pc = "insert_food",
                                  ![t].order_id = nextOrderId]
          /\ UNCHANGED ret
       \/ /\ TaskReturn(t, "make_order_from_user_cart", Err(StoreError))
          /\ UNCHANGED <<orders, nextOrderId>>

\* (mutant: every line item is inserted into the first order)
order_food_params_first_order(order_id, cart_item) ==
    <<1, cart_item.food_id, cart_item.count>>

\* (mutant: every line item is inserted with quantity 1)
order_food_params_count_one(order_id, cart_item) ==
    <<order_id, cart_item.food_id, 1>>

\* The parameters of insert/order_food.sql for one cart item.
order_food_params(order_id, cart_item) ==
    <<order_id, cart_item.food_id, cart_item.count>>

\* One turn of the loop over cart_items: execute(insert/order_food.sql).
make_order_insert_food(t) ==
    LET cart_item == task[t].cart_items[task[t].inserted + 1]
        params == order_food_params(task[t].order_id, cart_item) IN
    /\ task[t].op = "make_order_from_user_cart"
    /\ task[t].pc = "insert_food"
    /\ task[t].inserted < Len(task[t].cart_items)
    /\ UNCHANGED <<cart, nextCartId, orders, nextOrderId, feedbacks, took>>
    /\ \/ /\ order_food_accepted(params[1], params[2])
          /\ order_food' = order_food \cup
                 {sql_insert_order_food(params[1], params[2], params[3])}
          /\ task' = [task EXCEPT ![t].inserted = @ + 1]
          /\ UNCHANGED ret
       \/ /\ TaskReturn(t, "make_order_from_user_cart", Err(StoreError))
          /\ UNCHANGED order_food

\* After the loop: execute(delete/user_cart_all.sql, [user_id]) and Ok(order_id).
make_order_delete_cart(t) ==
    /\ task[t].op = "make_order_from_user_cart"
    /\ task[t].pc = "insert_food"
    /\ task[t].inserted = Len(task[t].cart_items)
    /\ UNCHANGED <<nextCartId, orders, nextOrderId, order_food, feedbacks, took>>
    /\ \/ /\ cart' = cart \ sql_delete_user_cart_all(task[t].user_id)
          /\ TaskReturn(t, "make_order_from_user_cart", Ok(task[t].order_id))
       \/ /\ TaskReturn(t, "make_order_from_user_cart", Err(StoreError))
          /\ UNCHANGED cart

\* Any statement of a checkout in flight.
make_order_step(t) ==
    \/ make_order_read_cart(t)
    \/ make_order_insert_order(t)
    \/ make_order_insert_food(t)
    \/ make_order_delete_cart(t)

(* -------------------------- order lifecycle ---------------------------- *)

\* (mutant: the update takes an order whatever its rider and completion)
sql_update_untaken_order_of_any_stage(params) == {o \in orders : o.id = params[2]}

\* update/untaken_order.sql [rider, id]: the rows updated: the order with the
\* id that has no rider and is not completed.
sql_update_untaken_order(params) ==
    {o \in orders : o.id = params[2] /\ o.rider_id = NULL /\ o.completed_time = NULL}

\* update/taken_order.sql [id, rider]: the rows updated: the order with the id
\* whose rider is the given user and that is not completed.
sql_update_taken_order(params) ==
    {o \in orders : o.id = params[1] /\ o.rider_id = params[2]
                    /\ o.completed_time = NULL}

\* (mutant: the delete takes the customer's order whatever its rider)
sql_delete_user_order_of_any_rider(params) ==
    {o \in orders : o.customer_id = params[1] /\ o.id = params[2]}

\* delete/untaken_user_order.sql [customer, id]: the rows deleted: the order
\* with the id whose customer is the given user and that has no rider.
sql_delete_untaken_user_order(params) ==
    {o \in orders : o.customer_id = params[1] /\ o.id = params[2]
                    /\ o.rider_id = NULL}

\* (mutants: the two parameters in the other order)
take_order_params_swapped(user_id, id) == <<id, user_id>>
complete_order_params_swapped(user_id, id) == <<user_id, id>>
delete_untaken_user_order_params_swapped(user_id, id) == <<id, user_id>>

\* The parameters of the three statements, in the order the handlers pass them.
take_order_params(user_id, id) == <<user_id, id>>
complete_order_params(user_id, id) == <<id, user_id>>
delete_untaken_user_order_params(user_id, id) == <<user_id, id>>

\* Client::take_order: user lookup, then one conditional update.
take_order(username, id) ==
    LET user_id == user_id_by_name(username) IN
    /\ UNCHANGED <<cart, nextCartId, nextOrderId, order_food, feedbacks, task>>
    /\ IF user_id.kind # "ok"
       THEN /\ ReturnTo("take_order", username, id, user_id)
            /\ UNCHANGED <<orders, took>>
       ELSE \/ LET params == take_order_params(user_id.val, id)
                   rows == sql_update_untaken_order(params) IN
               /\ rows # {} => params[1] \in UserIds
               /\ orders' = (orders \ rows) \cup
                      {[o EXCEPT !.rider_id = params[1]] : o \in rows}
               /\ ReturnTo("take_order", username, id, Ok(modified(Cardinality(rows))))
               /\ took' = IF modified(Cardinality(rows))
                          THEN took \cup {<<user_id.val, id>>} ELSE took
            \/ /\ ReturnTo("take_order", username, id, Err(StoreError))
               /\ UNCHANGED <<orders, took>>

\* Client::complete_order: user lookup, then one conditional update that
\* stamps the store's current time.
complete_order(username, id, now) ==
    LET user_id == user_id_by_name(username) IN
    /\ UNCHANGED <<cart, nextCartId, nextOrderId, order_food, feedbacks, task, took>>
    /\ IF user_id.kind # "ok"
       THEN /\ ReturnTo("complete_order", username, id, user_id)
            /\ UNCHANGED orders
       ELSE \/ LET rows == sql_update_taken_order(
                               complete_order_params(user_id.val, id)) IN
               /\ orders' = (orders \ rows) \cup
                      {[o EXCEPT !.completed_time = now] : o \in rows}
               /\ ReturnTo("complete_order", username, id, Ok(modified(Cardinality(rows))))
            \/ /\ ReturnTo("complete_order", username, id, Err(StoreError))
               /\ UNCHANGED orders

\* Client::delete_untaken_user_order: user lookup, then one conditional
\* delete; the order's line items go with it.
delete_untaken_user_order(username, id) ==
    LET user_id == user_id_by_name(username) IN
    /\ UNCHANGED <<cart, nextCartId, nextOrderId, feedbacks, task, took>>
    /\ IF user_id.kind # "ok"
       THEN /\ ReturnTo("delete_untaken_user_order", username, id, user_id)
            /\ UNCHANGED <<orders, order_food>>
       ELSE \/ LET rows == sql_delete_untaken_user_order(
                               delete_untaken_user_order_params(user_id.val, id)) IN
               /\ orders' = orders \ rows
               /\ order_food' =
                      {i \in order_food : \A o \in rows : i.order_id # o.id}
               /\ ReturnTo("delete_untaken_user_order", username, id, Ok(modified(Cardinality(rows))))
            \/ /\ ReturnTo("delete_untaken_user_order", username, id, Err(StoreError))
               /\ UNCHANGED <<orders, order_food>>

(* ------------------------------ feedback ------------------------------- *)

\* (mutant: a completed order still counts as in progress)
fits_rider_only(filter, order) ==
    CASE filter = "All" -> TRUE
      [] filter = "InProgress" -> order.rider_id # NULL
      [] filter = "Completed" -> order.completed_time # NULL

\* (mutant: InProgress asks for no rider instead of a rider)
fits_unclaimed(filter, order) ==
    CASE filter = "All" -> TRUE
      [] filter = "InProgress" ->
             order.rider_id = NULL /\ order.completed_time = NULL
      [] filter = "Completed" -> order.completed_time # NULL

\* (mutant: every order fits every filter)
fits_always(filter, order) == TRUE

\* OrdersFilter::fits
fits(filter, order) ==
    CASE filter = "All" -> TRUE
      [] filter = "InProgress" ->
             order.rider_id # NULL /\ order.completed_time = NULL
      [] filter = "Completed" -> order.completed_time # NULL

\* select/user_order.sql [user_id, order_id]: the user's order with the id.
sql_select_user_order(user_id, order_id) ==
    {o \in orders : o.customer_id = user_id /\ o.id = order_id}

\* Client::order_items: the order's food (query_food) and its line items,
\* merged; a line whose food is not among the food fetched is the fault.
order_items(order_id) ==
    LET items == {i \in order_food : i.order_id = order_id}
        food == query_food({i.food_id : i \in items}) IN
    IF food.kind # "ok" THEN food
    ELSE IF \E i \in items : i.food_id \notin food.val THEN Err(MergeError)
    ELSE Ok(items)

\* Client::order_feedback: query_opt(order_feedback.sql).
order_feedback(order_id) == {f \in feedbacks : f.order_id = order_id}

\* Client::query_orders: the fetched rows that fit the filter, each completed
\* to an Order; any failing fetch fails the whole.
query_orders(rows, filter) ==
    LET indexed_orders == {o \in rows : fits(filter, o)} IN
    IF \E o \in indexed_orders : order_items(o.id).kind # "ok"
    THEN Err(MergeError)
    ELSE Ok({[indexed_order |-> o, items |-> order_items(o.id).val,
              feedback |-> order_feedback(o.id)] : o \in indexed_orders})

\* (mutant: the feedback table does not keep one feedback per order)
feedback_accepted_any_number(order_id) == \E o \in orders : o.id = order_id

\* Whether insert/feedback.sql is accepted: the order exists (foreign key) and
\* carries no feedback yet (one feedback per order).
feedback_accepted(order_id) ==
    /\ \E o \in orders : o.id = order_id
    /\ \A f \in feedbacks : f.order_id # order_id

\* insert/feedback.sql [order_id, rating, comment]: the row inserted.
sql_insert_feedback(order_id, rating, comment) ==
    [id |-> Cardinality(feedbacks) + 1, order_id |-> order_id,
     rating |-> rating, comment |-> comment]

\* The username of a user id, and the return of add_user_feedback to its caller.
UserName(user_id) == CHOOSE n \in DOMAIN users : users[n] = user_id
FeedbackReturn(t, username, feedback, result) ==
    TaskReturnTo(t, "add_user_feedback", username, feedback.order_id, result)

\* add_user_feedback up to the insert: the content check, the user lookup and
\* the fetch of the user's completed order with the id.
add_user_feedback_start(t, username, feedback) ==
    LET user_id == user_id_by_name(username) IN
    /\ task[t].pc = "idle"
    /\ UNCHANGED <<store, took>>
    /\ IF is_none(feedback.rating) /\ is_none(feedback.comment)
       THEN FeedbackReturn(t, username, feedback, Err(NoContentError))
       ELSE IF user_id.kind # "ok"
       THEN FeedbackReturn(t, username, feedback, user_id)
       ELSE \/ LET found == query_orders(
                       sql_select_user_order(user_id.val, feedback.order_id),
                       "Completed") IN
               IF found.kind # "ok"
               THEN FeedbackReturn(t, username, feedback, found)
               ELSE IF found.val = {}
               THEN FeedbackReturn(t, username, feedback, Err(NoOrderError))
               ELSE /\ task' = [task EXCEPT ![t] =
                        [IdleTask EXCEPT !.op = "add_user_feedback",
                                         !.pc = "insert_feedback",
                                         !.user_id = user_id.val,
                                         !.feedback = feedback]]
                    /\ UNCHANGED ret
            \/ FeedbackReturn(t, username, feedback, Err(StoreError))

\* query_one(insert/feedback.sql, [order_id, rating, comment]) and its id.
add_user_feedback_insert(t) ==
    LET feedback == task[t].feedback IN
    /\ task[t].op = "add_user_feedback"
    /\ task[t].pc = "insert_feedback"
    /\ UNCHANGED <<cart, nextCartId, orders, nextOrderId, order_food, took>>
    /\ \/ /\ feedback_accepted(feedback.order_id)
          /\ feedbacks' = feedbacks \cup {sql_insert_feedback(
                 feedback.order_id, feedback.rating, feedback.comment)}
          /\ FeedbackReturn(t, UserName(task[t].user_id), feedback,
                            Ok(Cardinality(feedbacks) + 1))
       \/ /\ FeedbackReturn(t, UserName(task[t].user_id), feedback, Err(StoreError))
          /\ UNCHANGED feedbacks

(* --------------------------- order listings ---------------------------- *)

\* The food table's prices, in the smallest money unit (5.00 and 3.50).
food_price == [f \in 1..MaxFoodId |-> IF f % 2 = 1 THEN 500 ELSE 350]

\* select/orders.sql []: every order.
sql_select_orders == orders
\* select/user_orders.sql [user_id]: the orders of the customer.
sql_select_user_orders(user_id) == {o \in orders : o.customer_id = user_id}
\* select/order_food.sql [order_id]: the food rows of the order's lines.
sql_select_order_food(order_id) ==
    {i.food_id : i \in {x \in order_food : x.order_id = order_id}}
\* select/order_items.sql [order_id]: the order's lines.
sql_select_order_items(order_id) == {i \in order_food : i.order_id = order_id}

\* from_rows: the fetched rows as a Vec, in the order of their ids.
RECURSIVE from_rows(_)
from_rows(rows) ==
    IF rows = {} THEN <<>>
    ELSE LET first == CHOOSE x \in rows : \A y \in rows : x.id <= y.id
         IN <<first>> \o from_rows(rows \ {first})

\* (mutant: every fetched order is kept for the loop)
filter_fits_later(filter, indexed_orders) == indexed_orders

\* .into_iter().filter(|order| filter.fits(order)).collect()
RECURSIVE filter_fits(_, _)
filter_fits(filter, indexed_orders) ==
    IF indexed_orders = <<>> THEN <<>>
    ELSE (IF fits(filter, Head(indexed_orders)) THEN <<Head(indexed_orders)>> ELSE <<>>)
             \o filter_fits(filter, Tail(indexed_orders))

\* items.iter().map(|item| item.total_price).sum()
RECURSIVE sum_total_price(_)
sum_total_price(items) ==
    IF items = {} THEN 0
    ELSE LET item == CHOOSE x \in items : TRUE
         IN item.total_price + sum_total_price(items \ {item})

\* (mutant: a line costs its food's unit price, whatever its count)
line_total_of_one(row) == food_price[row.food_id]

\* OrderItem / CartItem: the row with its total_price = price * count.
line_total(row) == food_price[row.food_id] * row.count
OrderItem(row) ==
    [food_id |-> row.food_id, count |-> row.count, total_price |-> line_total(row)]

\* The first statement of query_orders: the rows fetched, those that fit the
\* filter kept; then the loop over them, or the return when it is over.
query_orders_fetch(t, op, username, user_id, rows, filter) ==
    LET indexed_orders == filter_fits(filter, from_rows(rows)) IN
    \/ /\ task' = [task EXCEPT ![t] =
               [IdleTask EXCEPT !.op = op, !.user_id = user_id, !.filter = filter,
                                !.rows = rows, !.indexed_orders = indexed_orders,
                                !.pc = IF indexed_orders = <<>>
                                       THEN "collected" ELSE "order_food"]]
       /\ UNCHANGED ret
    \/ TaskReturnTo(t, op, username, NULL, Err(StoreError))

\* Client::orders: query_orders(select/orders.sql, [], filter).
orders_start(t, filter) ==
    /\ task[t].pc = "idle"
    /\ UNCHANGED <<store, took>>
    /\ query_orders_fetch(t, "orders", "", NULL, sql_select_orders, filter)

\* Client::user_orders: user lookup, query_orders(select/user_orders.sql).
user_orders_start(t, username, filter) ==
    LET user_id == user_id_by_name(username) IN
    /\ task[t].pc = "idle"
    /\ UNCHANGED <<store, took>>
    /\ IF user_id.kind # "ok"
       THEN TaskReturnTo(t, "user_orders", username, NULL, user_id)
       ELSE query_orders_fetch(t, "user_orders", username, user_id.val,
                               sql_select_user_orders(user_id.val), filter)

\* Whether slot t runs a listing, the caller it returns to and the order the
\* loop of query_orders is at.
Listing(t) == task[t].op \in {"orders", "user_orders"}
ListCaller(t) == IF task[t].op = "orders" THEN "" ELSE UserName(task[t].user_id)
ListReturn(t, result) == TaskReturnTo(t, task[t].op, ListCaller(t), NULL, result)
indexed_order(t) == task[t].indexed_orders[Len(task[t].listed) + 1]

\* order_items, first fetch: query_food(select/order_food.sql, [order_id]).
query_orders_order_food(t) ==
    /\ Listing(t)
    /\ task[t].pc = "order_food"
    /\ UNCHANGED <<store, took>>
    /\ \/ LET food == query_food(sql_select_order_food(indexed_order(t).id)) IN
          IF food.kind # "ok"
          THEN ListReturn(t, food)
          ELSE /\ task' = [task EXCEPT ![t].pc = "order_items", ![t].food = food.val]
               /\ UNCHANGED ret
       \/ ListReturn(t, Err(StoreError))

\* order_items, second fetch and merge: each line takes its food from the
\* map; a line whose food is not there is the consistency fault.
query_orders_order_items(t) ==
    LET indexed_items == sql_select_order_items(indexed_order(t).id) IN
    /\ Listing(t)
    /\ task[t].pc = "order_items"
    /\ UNCHANGED <<store, took>>
    /\ \/ IF \E i \in indexed_items : i.food_id \notin task[t].food
          THEN ListReturn(t, Err(MergeError))
          ELSE /\ task' = [task EXCEPT ![t].pc = "order_feedback",
                               ![t].items = {OrderItem(i) : i \in indexed_items}]
               /\ UNCHANGED ret
       \/ ListReturn(t, Err(StoreError))

\* The rest of the loop body: customer, address and rider by id (tables this
\* model keeps fixed), order_feedback, and the Order pushed.
query_orders_order_feedback(t) ==
    LET order == [indexed_order |-> indexed_order(t),
                  items |-> task[t].items,
                  total_price |-> sum_total_price(task[t].items),
                  feedback |-> order_feedback(indexed_order(t).id)]
        listed == Append(task[t].listed, order) IN
    /\ Listing(t)
    /\ task[t].pc = "order_feedback"
    /\ UNCHANGED <<store, took>>
    /\ \/ /\ task' = [task EXCEPT ![t].listed = listed, ![t].food = {},
                          ![t].items = {},
                          ![t].pc = IF Len(listed) = Len(task[t].indexed_orders)
                                    THEN "collected" ELSE "order_food"]
          /\ UNCHANGED ret
       \/ ListReturn(t, Err(StoreError))

\* Ok(orders)
query_orders_return(t) ==
    /\ Listing(t)
    /\ task[t].pc = "collected"
    /\ UNCHANGED <<store, took>>
    /\ ListReturn(t, Ok(task[t].listed))

query_orders_step(t) ==
    \/ query_orders_order_food(t)
    \/ query_orders_order_items(t)
    \/ query_orders_order_feedback(t)
    \/ query_orders_return(t)

(* ------------------- the catalog and the favorites --------------------- *)

\* insert/category.sql: the row inserted (Client::add_category).
add_category(id) ==
    /\ id \notin categories
    /\ categories' = categories \cup {id}
    /\ Return("add_category", Ok(id))
    /\ UNCHANGED <<store, task, took, favorites, nextFavoriteId, food_category,
                   food_columns>>

\* insert/food.sql: the row inserted, its category being one of the table
\* (Client::add_food).
add_food(id, category_id) ==
    /\ id \notin DOMAIN food_category
    /\ category_id \in categories
    /\ food_category' = [f \in DOMAIN food_category \cup {id} |->
                             IF f = id THEN category_id ELSE food_category[f]]
    /\ food_columns' = [f \in DOMAIN food_columns \cup {id} |->
                            IF f = id THEN FoodColumns(id) ELSE food_columns[f]]
    /\ Return("add_food", Ok(id))
    /\ UNCHANGED <<store, task, took, favorites, nextFavoriteId, categories>>

\* (mutant: the favorites have no constraint)
food_per_user_unchecked(user_id, food_id) == TRUE

\* check of constraint 'food_per_user': one favorite per (user, food).
food_per_user(user_id, food_id) ==
    \A f \in favorites : ~(f.user_id = user_id /\ f.food_id = food_id)

\* insert/user_favorite.sql [user_id, food_id]: the row inserted.
sql_insert_user_favorite(user_id, food_id) ==
    [id |-> nextFavoriteId, user_id |-> user_id, food_id |-> food_id,
     add_time |-> nextFavoriteId]
\* delete/user_favorite.sql [user_id, id]: the rows deleted.
sql_delete_user_favorite(user_id, id) ==
    {f \in favorites : f.user_id = user_id /\ f.id = id}
\* select/user_favorite_food.sql [user_id]: the food rows of the favorites.
sql_select_user_favorite_food(user_id) ==
    {f.food_id : f \in {x \in favorites : x.user_id = user_id}}
\* select/user_favorites.sql [user_id]: the user's favorites.
sql_select_user_favorites(user_id) == {f \in favorites : f.user_id = user_id}

\* Client::add_user_favorite: user lookup, then one insert returning the id.
add_user_favorite(username, food_id) ==
    LET user_id == user_id_by_name(username) IN
    /\ UNCHANGED <<store, task, took, catalog>>
    /\ IF user_id.kind # "ok"
       THEN /\ ReturnTo("add_user_favorite", username, food_id, user_id)
            /\ UNCHANGED <<favorites, nextFavoriteId>>
       ELSE \/ /\ food_per_user(user_id.val, food_id)
               /\ food_id \in DOMAIN food_category
               /\ nextFavoriteId <= MaxFavoriteId
               /\ favorites' = favorites \cup
                      {sql_insert_user_favorite(user_id.val, food_id)}
               /\ nextFavoriteId' = nextFavoriteId + 1
               /\ ReturnTo("add_user_favorite", username, food_id, Ok(nextFavoriteId))
            \/ /\ ReturnTo("add_user_favorite", username, food_id, Err(StoreError))
               /\ UNCHANGED <<favorites, nextFavoriteId>>

\* Client::delete_user_favorite: user lookup, then one delete.
delete_user_favorite(username, id) ==
    LET user_id == user_id_by_name(username) IN
    /\ UNCHANGED <<store, task, took, catalog, nextFavoriteId>>
    /\ IF user_id.kind # "ok"
       THEN /\ ReturnTo("delete_user_favorite", username, id, user_id)
            /\ UNCHANGED favorites
       ELSE \/ LET deleted == sql_delete_user_favorite(user_id.val, id) IN
               /\ favorites' = favorites \ deleted
               /\ ReturnTo("delete_user_favorite", username, id,
                           Ok(modified(Cardinality(deleted))))
            \/ /\ ReturnTo("delete_user_favorite", username, id, Err(StoreError))
               /\ UNCHANGED favorites

(* ------------------------ users and addresses -------------------------- *)

\* UserRole
UserRoles == {"Customer", "Manager", "Rider"}

\* (mutant: the users table has no constraint on the username)
username_unique_unchecked(username) == TRUE

\* check of the users table's constraint: one user per username.
username_unique(username) == \A u \in user_table : u.username # username

\* (mutant: the users table makes a new user a manager)
sql_insert_user_as_manager(username) ==
    [id |-> nextUserId, username |-> username, role |-> "Manager"]

\* insert/user.sql [username, ...]: the row inserted; a user signs up as a
\* customer.
sql_insert_user(username) ==
    [id |-> nextUserId, username |-> username, role |-> "Customer"]

\* Client::add_user: one insert returning the id.
add_user(username) ==
    /\ UNCHANGED <<store, task, took, favorites, nextFavoriteId, catalog,
                   addresses, nextAddressId>>
    /\ \/ /\ username_unique(username)
          /\ nextUserId <= MaxUserId
          /\ user_table' = user_table \cup {sql_insert_user(username)}
          /\ nextUserId' = nextUserId + 1
          /\ ReturnTo("add_user", username, NULL, Ok(nextUserId))
       \/ /\ ReturnTo("add_user", username, NULL, Err(StoreError))
          /\ UNCHANGED <<user_table, nextUserId>>

\* Query<User>, the user of a sign-up request: role is marked serde(skip), so
\* it is UserRole::default() whatever the query string carries; the username
\* is the one of the credentials.
user_from_query(username, role) == [username |-> username, role |-> "Customer"]

\* sign_up: the user of the request is added; add_user sends the username,
\* the password, the names and the birth date, and no role.
sign_up(username, role) == add_user(user_from_query(username, role).username)

\* update/user_role.sql [role, id]: the rows updated.
sql_update_user_role(role, id) == {u \in user_table : u.id = id}

\* MutationRoot::set_user_role, up to the call of the Client: the current user
\* is fetched and must be a Manager other than the user of the username.
set_user_role_start(t, current, username, role) ==
    LET current_user == user_by_name(current) IN
    /\ task[t].pc = "idle"
    /\ UNCHANGED <<store, took, favorites, nextFavoriteId, catalog, accounts>>
    /\ \/ IF current_user.kind # "ok"
          THEN TaskReturnTo(t, "set_user_role", current, NULL, Err(StoreError))
          ELSE IF current_user.val.role # "Manager"
          THEN TaskReturnTo(t, "set_user_role", current, NULL, Err(AccessDenied))
          ELSE IF current_user.val.username = username
          THEN TaskReturnTo(t, "set_user_role", current, NULL, Err(OwnRoleError))
          ELSE /\ task' = [task EXCEPT ![t] =
                      [IdleTask EXCEPT !.op = "set_user_role", !.pc = "user_id",
                                       !.current_user = current,
                                       !.username = username, !.role = role]]
               /\ UNCHANGED ret
       \/ TaskReturnTo(t, "set_user_role", current, NULL, Err(StoreError))

\* Client::set_user_role, the parameter user_id_by_name(username).
set_user_role_user_id(t) ==
    LET user_id == user_id_by_name(task[t].username) IN
    /\ task[t].op = "set_user_role"
    /\ task[t].pc = "user_id"
    /\ UNCHANGED <<store, took, favorites, nextFavoriteId, catalog, accounts>>
    /\ \/ IF user_id.kind # "ok"
          THEN TaskReturnTo(t, "set_user_role", task[t].current_user, NULL, user_id)
          ELSE /\ task' = [task EXCEPT ![t].pc = "update", ![t].user_id = user_id.val]
               /\ UNCHANGED ret
       \/ TaskReturnTo(t, "set_user_role", task[t].current_user, NULL, Err(StoreError))

\* Client::set_user_role: execute(update/user_role.sql), modified_rows != 0.
set_user_role_update(t) ==
    LET updated == sql_update_user_role(task[t].role, task[t].user_id) IN
    /\ task[t].op = "set_user_role"
    /\ task[t].pc = "update"
    /\ UNCHANGED <<store, took, favorites, nextFavoriteId, catalog, nextUserId,
                   addresses, nextAddressId>>
    /\ \/ /\ user_table' = (user_table \ updated) \cup
                               {[u EXCEPT !.role = task[t].role] : u \in updated}
          /\ TaskReturnTo(t, "set_user_role", task[t].current_user, task[t].user_id,
                          Ok(modified(Cardinality(updated))))
       \/ /\ TaskReturnTo(t, "set_user_role", task[t].current_user, NULL,
                          Err(StoreError))
          /\ UNCHANGED user_table

set_user_role_step(t) == set_user_role_user_id(t) \/ set_user_role_update(t)

\* insert/user_address.sql [user_id, ...]: the row inserted.
sql_insert_user_address(user_id) == [id |-> nextAddressId, user_id |-> user_id]

\* (mutant: the delete does not look at the owner)
sql_delete_user_address_of_anyone(user_id, id) == {a \in addresses : a.id = id}

\* delete/user_address.sql [user_id, id]: the rows deleted.
sql_delete_user_address(user_id, id) ==
    {a \in addresses : a.user_id = user_id /\ a.id = id}

\* Client::add_user_address: user lookup, then one insert returning the id.
add_user_address(username) ==
    LET user_id == user_id_by_name(username) IN
    /\ UNCHANGED <<store, task, took, favorites, nextFavoriteId, catalog,
                   user_table, nextUserId>>
    /\ IF user_id.kind # "ok"
       THEN /\ ReturnTo("add_user_address", username, NULL, user_id)
            /\ UNCHANGED <<addresses, nextAddressId>>
       ELSE \/ /\ nextAddressId <= MaxAddressId
               /\ addresses' = addresses \cup {sql_insert_user_address(user_id.val)}
               /\ nextAddressId' = nextAddressId + 1
               /\ ReturnTo("add_user_address", username, NULL, Ok(nextAddressId))
            \/ /\ ReturnTo("add_user_address", username, NULL, Err(StoreError))
               /\ UNCHANGED <<addresses, nextAddressId>>

\* Client::delete_user_address: user lookup, then one delete.
delete_user_address(username, id) ==
    LET user_id == user_id_by_name(username) IN
    /\ UNCHANGED <<store, task, took, favorites, nextFavoriteId, catalog,
                   user_table, nextUserId, nextAddressId>>
    /\ IF user_id.kind # "ok"
       THEN /\ ReturnTo("delete_user_address", username, id, user_id)
            /\ UNCHANGED addresses
       ELSE \/ LET deleted == sql_delete_user_address(user_id.val, id) IN
               /\ addresses' = addresses \ deleted
               /\ ReturnTo("delete_user_address", username, id,
                           Ok(modified(Cardinality(deleted))))
            \/ /\ ReturnTo("delete_user_address", username, id, Err(StoreError))
               /\ UNCHANGED addresses

(* -------------------- the resolvers behind a role ---------------------- *)

\* The resolvers that return "access denied" unless the current user is a
\* Manager, and those that return it when the current user is a Customer.
ManagerResolvers ==
    {"add_category", "delete_category", "add_food", "delete_food",
     "broadcast_notification", "users"}
StaffResolvers == {"send_direct_notification", "orders"}
RoleResolvers == ManagerResolvers \cup StaffResolvers

\* (mutant: the resolvers let every role pass)
access_denied_never(op, role) == FALSE

\* The condition of the early return of a resolver: current_user.role !=
\* UserRole::Manager, or let UserRole::Customer = current_user.role.
access_denied(op, role) ==
    \/ op \in ManagerResolvers /\ role # "Manager"
    \/ op \in StaffResolvers /\ role = "Customer"

\* A resolver behind a role, up to its call of the Client: the current user is
\* fetched and the role is looked at.  args are the arguments the resolver was
\* called with: an id, a category, a role and a filter, each where it has one.
resolver_start(t, op, current, args) ==
    LET current_user == user_by_name(current) IN
    /\ task[t].pc = "idle"
    /\ UNCHANGED <<store, took, favorites, nextFavoriteId, catalog, accounts, notes>>
    /\ \/ IF current_user.kind # "ok"
          THEN TaskReturnTo(t, op, current, args.id, Err(StoreError))
          ELSE IF access_denied(op, current_user.val.role)
          THEN TaskReturnTo(t, op, current, args.id, Err(AccessDenied))
          ELSE /\ task' = [task EXCEPT ![t] =
                      [IdleTask EXCEPT !.op = op, !.pc = "allowed",
                                       !.current_user = current, !.id = args.id,
                                       !.category_id = args.category_id,
                                       !.role = args.role,
                                       !.filter = args.filter]]
               /\ UNCHANGED ret
       \/ TaskReturnTo(t, op, current, args.id, Err(StoreError))

\* The resolver of slot t passed the role and calls the Client next.
Allowed(t, op) == task[t].op = op /\ task[t].pc = "allowed"
ResolverReturn(t, result) ==
    TaskReturnTo(t, task[t].op, task[t].current_user, task[t].id, result)

\* MutationRoot::add_category after the role: read_preview, then
\* Client::add_category, one insert returning the id.
add_category_allowed(t) ==
    /\ Allowed(t, "add_category")
    /\ UNCHANGED <<store, took, favorites, nextFavoriteId, food_category,
                   food_columns, accounts, notes>>
    /\ \/ /\ task[t].id \notin categories
          /\ categories' = categories \cup {task[t].id}
          /\ ResolverReturn(t, Ok(task[t].id))
       \/ /\ ResolverReturn(t, Err(UploadError))
          /\ UNCHANGED categories
       \/ /\ ResolverReturn(t, Err(StoreError))
          /\ UNCHANGED categories

\* delete/category.sql [id]: the rows deleted.
sql_delete_category(id) == {c \in categories : c = id}

\* MutationRoot::delete_category after the role: Client::delete_category.
delete_category_allowed(t) ==
    /\ Allowed(t, "delete_category")
    /\ UNCHANGED <<store, took, favorites, nextFavoriteId, food_category,
                   food_columns, accounts, notes>>
    /\ \/ LET deleted == sql_delete_category(task[t].id) IN
          /\ categories' = categories \ deleted
          /\ ResolverReturn(t, Ok(modified(Cardinality(deleted))))
       \/ /\ ResolverReturn(t, Err(StoreError))
          /\ UNCHANGED categories

\* MutationRoot::add_food after the role: read_preview, then Client::add_food,
\* one insert returning the id.
add_food_allowed(t) ==
    /\ Allowed(t, "add_food")
    /\ UNCHANGED <<store, took, favorites, nextFavoriteId, categories, accounts,
                   notes>>
    /\ \/ /\ task[t].id \notin DOMAIN food_category
          /\ task[t].category_id \in categories
          /\ food_category' =
                 [f \in DOMAIN food_category \cup {task[t].id} |->
                      IF f = task[t].id THEN task[t].category_id ELSE food_category[f]]
          /\ food_columns' =
                 [f \in DOMAIN food_columns \cup {task[t].id} |->
                      IF f = task[t].id THEN FoodColumns(f) ELSE food_columns[f]]
          /\ ResolverReturn(t, Ok(task[t].id))
       \/ /\ ResolverReturn(t, Err(UploadError))
          /\ UNCHANGED <<food_category, food_columns>>
       \/ /\ ResolverReturn(t, Err(StoreError))
          /\ UNCHANGED <<food_category, food_columns>>

\* delete/food.sql [id]: the rows deleted.
sql_delete_food(id) == {f \in DOMAIN food_category : f = id}

\* MutationRoot::delete_food after the role: Client::delete_food.
delete_food_allowed(t) ==
    /\ Allowed(t, "delete_food")
    /\ UNCHANGED <<store, took, favorites, nextFavoriteId, categories, accounts,
                   notes>>
    /\ \/ LET deleted == sql_delete_food(task[t].id) IN
          /\ food_category' = [f \in DOMAIN food_category \ deleted |->
                                   food_category[f]]
          /\ food_columns' = [f \in DOMAIN food_columns \ deleted |->
                                  food_columns[f]]
          /\ ResolverReturn(t, Ok(modified(Cardinality(deleted))))
       \/ /\ ResolverReturn(t, Err(StoreError))
          /\ UNCHANGED <<food_category, food_columns>>

\* select/users.sql: the rows of the users table.
sql_select_users == user_table

\* QueryRoot::users after the role: Client::users.
users_allowed(t) ==
    /\ Allowed(t, "users")
    /\ UNCHANGED <<store, took, favorites, nextFavoriteId, catalog, accounts, notes>>
    /\ \/ ResolverReturn(t, Ok(sql_select_users))
       \/ ResolverReturn(t, Err(StoreError))

\* QueryRoot::orders after the role: Client::orders.
orders_allowed(t) ==
    /\ Allowed(t, "orders")
    /\ UNCHANGED <<store, took>>
    /\ query_orders_fetch(t, "orders", "", NULL, sql_select_orders, task[t].filter)

\* insert/user_notification.sql [user_id, title, description]: the row inserted.
sql_insert_user_notification(user_id) ==
    [id |-> nextNotificationId, user_id |-> user_id]

\* MutationRoot::send_direct_notification after the role:
\* Client::add_user_notification, one insert returning the id.
send_direct_notification_allowed(t) ==
    /\ Allowed(t, "send_direct_notification")
    /\ UNCHANGED <<store, took, favorites, nextFavoriteId, catalog, accounts>>
    /\ \/ /\ nextNotificationId <= MaxNotificationId
          /\ notifications' =
                 notifications \cup {sql_insert_user_notification(task[t].id)}
          /\ nextNotificationId' = nextNotificationId + 1
          /\ ResolverReturn(t, Ok(nextNotificationId))
       \/ /\ ResolverReturn(t, Err(StoreError))
          /\ UNCHANGED notes

\* (mutant: the broadcast goes to every user)
target_users_of_any_role(users_fetched, target_users_role) == users_fetched

\* Client::add_notifications: users().filter(|user| user.role ==
\* target_users_role).
target_users(users_fetched, target_users_role) ==
    {user \in users_fetched : user.role = target_users_role}

\* MutationRoot::broadcast_notification after the role, Client::add_notifications
\* up to its loop: the users are fetched and those of the target role kept.
add_notifications_users(t) ==
    /\ Allowed(t, "broadcast_notification")
    /\ UNCHANGED <<store, took, favorites, nextFavoriteId, catalog, accounts, notes>>
    /\ \/ LET targets == target_users(sql_select_users, task[t].role) IN
          IF targets = {}
          THEN ResolverReturn(t, Ok(<<>>))
          ELSE /\ task' = [task EXCEPT ![t].pc = "notify", ![t].rows = targets,
                                       ![t].listed = <<>>]
               /\ UNCHANGED ret
       \/ ResolverReturn(t, Err(StoreError))

\* Client::add_notifications, one turn of its loop: add_user_notification for
\* the next user (in the order select/users.sql gave, any order here), the id
\* returned is pushed; Ok(notification_ids) after the last.
add_notifications_insert(t) ==
    /\ task[t].op = "broadcast_notification"
    /\ task[t].pc = "notify"
    /\ UNCHANGED <<store, took, favorites, nextFavoriteId, catalog, accounts>>
    /\ \/ \E user \in task[t].rows :
            LET notification_ids == Append(task[t].listed, nextNotificationId) IN
            /\ nextNotificationId <= MaxNotificationId
            /\ notifications' =
                   notifications \cup {sql_insert_user_notification(user.id)}
            /\ nextNotificationId' = nextNotificationId + 1
            /\ IF task[t].rows = {user}
               THEN ResolverReturn(t, Ok(notification_ids))
               ELSE /\ task' = [task EXCEPT ![t].rows = task[t].rows \ {user},
                                            ![t].listed = notification_ids]
                    /\ UNCHANGED ret
       \/ /\ ResolverReturn(t, Err(StoreError))
          /\ UNCHANGED notes

(* --------------------------- authentication ---------------------------- *)

\* The password each user signed up with; the users table holds its digest.
Passwords == [ann |-> "password of ann", bob |-> "password of bob",
              cat |-> "password of cat"]

\* sha256: the digest of a string, one for each string.
sha256(data) == <<"sha256", data>>

\* check/credentials_valid.sql [username, digest]: whether a user of that
\* username has that digest for a password.
sql_check_credentials_valid(username, digest) ==
    \E u \in user_table :
        /\ u.username = username
        /\ username \in DOMAIN Passwords
        /\ digest = sha256(Passwords[username])

\* Client::is_credentials_valid: is_true(check/credentials_valid.sql,
\* [username, sha256(password)]), when the store answers.
is_credentials_valid(username, password) ==
    Ok(sql_check_credentials_valid(username, sha256(password)))

\* (mutant: a check that failed passes for a check that returned true)
unwrap_or_true(result) == IF result.kind = "ok" THEN result.val ELSE TRUE

\* Result::unwrap_or(false)
unwrap_or_false(result) == IF result.kind = "ok" THEN result.val ELSE FALSE

\* The services wrapped in HttpAuthentication::basic(auth_validator).
Services == {"request", "playground", "preview"}

\* auth_validator for a request to a wrapped service: with a Client in the
\* app data, the credentials are checked and the request goes on to its
\* service when the check returned true; else the authentication error is
\* the response.  registered tells whether the app data holds a Client.
auth_validator(t, service, user, password, registered) ==
    /\ task[t].pc = "idle"
    /\ UNCHANGED <<store, took, favorites, nextFavoriteId, catalog, accounts, notes>>
    /\ \/ /\ registered
          /\ \E result \in {is_credentials_valid(user, password), Err(StoreError)} :
                 IF unwrap_or_false(result)
                 THEN /\ task' = [task EXCEPT ![t] =
                             [IdleTask EXCEPT !.op = service, !.pc = "service",
                                              !.current_user = user,
                                              !.password = password]]
                      /\ UNCHANGED ret
                 ELSE TaskReturnTo(t, "auth_validator", user, NULL,
                                   Err(AuthenticationError))
       \/ /\ ~registered
          /\ TaskReturnTo(t, "auth_validator", user, NULL, Err(AuthenticationError))

\* The service of a request that passed auth_validator answers: request
\* executes the GraphQL request with the credentials as its data, playground
\* returns its page, preview returns the bytes read from the store or a bad
\* request.
service_run(t) ==
    /\ task[t].op \in Services
    /\ task[t].pc = "service"
    /\ UNCHANGED <<store, took, favorites, nextFavoriteId, catalog, accounts, notes>>
    /\ \/ TaskReturnTo(t, task[t].op, task[t].current_user, NULL, Ok(TRUE))
       \/ /\ task[t].op = "preview"
          /\ TaskReturnTo(t, task[t].op, task[t].current_user, NULL, Err(StoreError))

(* ------------------ reading a cart and the favorites ------------------- *)

\* SortCartBy::cmp / SortFoodBy::cmp: the field the rows are compared by.
cmp_key(sort_by, row) ==
    CASE sort_by = "Count" -> row.count
      [] sort_by = "AddTime" -> row.add_time
      [] sort_by = "Title" -> row.title
      [] sort_by = "Price" -> row.price

\* Vec::sort_by (stable): each row goes behind the rows before it that do not
\* compare greater.
RECURSIVE sort_by(_, _)
sort_by(v, by) ==
    IF v = <<>> THEN <<>>
    ELSE LET sorted == sort_by(SubSeq(v, 1, Len(v) - 1), by)
             x == v[Len(v)]
             n == Cardinality({i \in DOMAIN sorted :
                                   cmp_key(by, sorted[i]) <= cmp_key(by, x)})
         IN SubSeq(sorted, 1, n) \o <<x>> \o SubSeq(sorted, n + 1, Len(sorted))

\* Vec::reverse
reverse(v) == [i \in 1..Len(v) |-> v[Len(v) + 1 - i]]

\* (mutant: Descending keeps the rows that compare equal in their fetched order)
sorted_rows_keeping_ties(v, by, sort_order) ==
    IF sort_order = "Descending" THEN reverse(sort_by(reverse(v), by)) ELSE sort_by(v, by)

\* sort_by(|lhs, rhs| sort_by.cmp(lhs, rhs)), reversed if Descending.
sorted_rows(v, by, sort_order) ==
    IF sort_order = "Descending" THEN reverse(sort_by(v, by)) ELSE sort_by(v, by)

\* CartItem: the cart row with its total_price = price * count.
CartItem(row) ==
    [id |-> row.id, food_id |-> row.food_id, count |-> row.count,
     add_time |-> row.add_time, total_price |-> line_total(row)]
\* Cart { total_price: sum of the items' total_price, items }
Cart(items) ==
    [items |-> [i \in DOMAIN items |-> CartItem(items[i])],
     total_price |-> sum_total_price({CartItem(items[i]) : i \in DOMAIN items})]

\* The merge loop of user_favorites, the same as user_cart's.
user_favorites_merge(indexed_favorites, food) ==
    user_cart_merge(indexed_favorites, food)

\* user_cart / user_favorites up to the first fetch of query_food: the user
\* lookup and the categories.
read_start(t, op, username, by, sort_order) ==
    LET user_id == user_id_by_name(username) IN
    /\ task[t].pc = "idle"
    /\ UNCHANGED <<store, took>>
    /\ IF user_id.kind # "ok"
       THEN TaskReturnTo(t, op, username, NULL, user_id)
       ELSE \/ /\ task' = [task EXCEPT ![t] =
                      [IdleTask EXCEPT !.op = op, !.pc = "query_food",
                                       !.user_id = user_id.val,
                                       !.sort_by = by, !.sort_order = sort_order,
                                       !.categories = categories]]
               /\ UNCHANGED ret
            \/ TaskReturnTo(t, op, username, NULL, Err(StoreError))

user_cart_start(t, username, by, sort_order) ==
    read_start(t, "user_cart", username, by, sort_order)
user_favorites_start(t, username) ==
    read_start(t, "user_favorites", username, "", "")

\* Whether slot t reads a cart or the favorites, and its return.
Reading(t) == task[t].op \in {"user_cart", "user_favorites"}
ReadReturn(t, result) ==
    TaskReturnTo(t, task[t].op, UserName(task[t].user_id), NULL, result)

\* select/food_in_user_cart.sql or select/user_favorite_food.sql.
sql_select_food_of(op, user_id) ==
    IF op = "user_cart" THEN sql_select_food_in_user_cart(user_id)
    ELSE sql_select_user_favorite_food(user_id)

\* The second fetch of query_food: the food rows, each given its category.
query_food_rows(t) ==
    LET food == query_food_merge(task[t].categories,
                                 sql_select_food_of(task[t].op, task[t].user_id)) IN
    /\ Reading(t)
    /\ task[t].pc = "query_food"
    /\ UNCHANGED <<store, took>>
    /\ \/ IF food.kind # "ok"
          THEN ReadReturn(t, food)
          ELSE /\ task' = [task EXCEPT ![t].pc = "rows", ![t].food = food.val]
               /\ UNCHANGED ret
       \/ ReadReturn(t, Err(StoreError))

\* The rest of user_cart: the cart rows, sorted, merged with the food, totalled.
user_cart_rows(t) ==
    LET indexed_cart == sorted_rows(from_rows(sql_select_user_cart(task[t].user_id)),
                                    task[t].sort_by, task[t].sort_order)
        merged == user_cart_merge(indexed_cart, task[t].food) IN
    /\ task[t].op = "user_cart"
    /\ task[t].pc = "rows"
    /\ UNCHANGED <<store, took>>
    /\ \/ IF merged.fault
          THEN ReadReturn(t, Err(MergeError))
          ELSE ReadReturn(t, Ok(Cart(merged.items)))
       \/ ReadReturn(t, Err(StoreError))

\* The rest of user_favorites: the favorites, merged with the food.
user_favorites_rows(t) ==
    LET indexed_favorites == from_rows(sql_select_user_favorites(task[t].user_id))
        merged == user_favorites_merge(indexed_favorites, task[t].food) IN
    /\ task[t].op = "user_favorites"
    /\ task[t].pc = "rows"
    /\ UNCHANGED <<store, took>>
    /\ \/ IF merged.fault
          THEN ReadReturn(t, Err(MergeError))
          ELSE ReadReturn(t, Ok(merged.items))
       \/ ReadReturn(t, Err(StoreError))

read_step(t) == query_food_rows(t) \/ user_cart_rows(t) \/ user_favorites_rows(t)

\* select/food_in_category.sql [category_id]: the food rows of the category.
sql_select_food_in_category(category_id) ==
    {[id |-> f, category_id |-> category_id, title |-> food_columns[f].title,
      count |-> food_columns[f].count, price |-> food_price[f]] :
         f \in {g \in DOMAIN food_category : food_category[g] = category_id}}

\* Client::food_in_category: one fetch, sorted, reversed if Descending.
food_in_category(category_id, by, sort_order) ==
    /\ UNCHANGED <<store, task, took, favorites, nextFavoriteId, catalog>>
    /\ \/ ReturnTo("food_in_category", "", category_id,
                   Ok(sorted_rows(from_rows(sql_select_food_in_category(category_id)),
                                  by, sort_order)))
       \/ ReturnTo("food_in_category", "", category_id, Err(StoreError))

(* --------------------------- specifications ---------------------------- *)

\* Who calls the cart and checkout handlers in the specifications below.
CartUsers == {"ann", "nobody"}
CartAddresses == {1}

\* Handlers of any number of requests run concurrently: carts and checkout.
CartAdd == 
    /\ UNCHANGED <<before, extra>>
    /\ \E n \in CartUsers, f \in Foods, c \in Counts : add_user_cart_item(n, f, c)

CartDelete ==
    /\ UNCHANGED <<before, extra>>
    /\ \E n \in CartUsers, id \in 1..MaxCartId : delete_user_cart_item(n, id)

CheckoutCall ==
    /\ UNCHANGED <<before, extra>>
    /\ \E t \in Tasks, n \in CartUsers, a \in CartAddresses : make_order_start(t, n, a)

CheckoutStep ==
    /\ UNCHANGED <<before, extra>>
    /\ \E t \in Tasks : make_order_step(t)

Next == CartAdd \/ CartDelete \/ CheckoutCall \/ CheckoutStep

Spec == Init /\ [][Next]_vars

\* The store as a checkout finds it when it is called.
CallSnapshot(username) ==
    [user_id |-> user_id_by_name(username).val, cart |-> cart, orders |-> orders,
     order_food |-> order_food, ret |-> [op |-> ret.op, kind |-> ret.kind]]

\* Who calls the handlers when they run one after the other, and the cart
\* lines they add: ann fills and checks out carts, bob keeps a cart beside.
SeqUsers == {"ann", "bob", "nobody"}
SeqBuyers == {"ann", "nobody"}
SeqAdds == (SeqBuyers \X Foods \X Counts) \cup {<<"bob", 1, 1>>}

\* The same handlers, one request at a time: a handler is called only when
\* no other is in flight.  before holds the store of the last call while that
\* call is the last handler that ran.
SeqCartAdd ==
    /\ AllIdle
    /\ before' = NoCall
    /\ UNCHANGED extra
    /\ \E a \in SeqAdds : add_user_cart_item(a[1], a[2], a[3])

SeqCartDelete ==
    /\ AllIdle
    /\ before' = NoCall
    /\ UNCHANGED extra
    /\ \E n \in SeqUsers, id \in 1..MaxCartId : delete_user_cart_item(n, id)

SeqCheckoutCall ==
    /\ AllIdle
    /\ \E n \in SeqBuyers, a \in CartAddresses :
           /\ make_order_start(1, n, a)
           /\ before' = CallSnapshot(n)
    /\ UNCHANGED extra

SeqCheckoutStep ==
    /\ UNCHANGED <<before, extra>>
    /\ make_order_step(1)

NextSeq == SeqCartAdd \/ SeqCartDelete \/ SeqCheckoutCall \/ SeqCheckoutStep

SpecSeq == Init /\ [][NextSeq]_vars

\* The store after bob checked out a cart of two lines and then ann one of
\* one line (the checkout above, run twice), nothing in flight.
InitOrders ==
    /\ cart = {}
    /\ nextCartId = 4
    /\ orders = {[id |-> 1, customer_id |-> 2, address_id |-> 2,
                  rider_id |-> NULL, completed_time |-> NULL],
                 [id |-> 2, customer_id |-> 1, address_id |-> 1,
                  rider_id |-> NULL, completed_time |-> NULL]}
    /\ nextOrderId = 3
    /\ order_food = {[order_id |-> 1, food_id |-> 1, count |-> 2],
                     [order_id |-> 1, food_id |-> 2, count |-> 1],
                     [order_id |-> 2, food_id |-> 1, count |-> 1]}
    /\ feedbacks = {}
    /\ task = [t \in Tasks |-> IdleTask]
    /\ ret = [op |-> "make_order_from_user_cart", kind |-> "ok", val |-> 2,
              caller |-> "", id |-> NULL]
    /\ before = NoCall
    /\ took = {}
    /\ InitExtra

\* Who calls the lifecycle handlers, on which ids (3 is no order's), and the
\* feedback they send.
LifeUsers == {"ann", "bob"}
LifeOrderIds == {1, 2, 3}
\* add_user_feedback is also called with a username of no user.
FeedbackUsers == LifeUsers \cup {"nobody"}
FeedbackContents == {<<None, None>>, <<Some(5), None>>, <<None, Some("good")>>}
Feedbacks == {[order_id |-> id, rating |-> c[1], comment |-> c[2]] :
                  id \in {1, 3}, c \in FeedbackContents}

Take ==
    /\ UNCHANGED <<before, extra>>
    /\ \E n \in LifeUsers, id \in LifeOrderIds : take_order(n, id)

Complete ==
    /\ UNCHANGED <<before, extra>>
    /\ \E n \in LifeUsers, id \in LifeOrderIds, now \in Times :
           complete_order(n, id, now)

Cancel ==
    /\ UNCHANGED <<before, extra>>
    /\ \E n \in LifeUsers, id \in LifeOrderIds : delete_untaken_user_order(n, id)

FeedbackCall ==
    /\ UNCHANGED <<before, extra>>
    /\ \E t \in Tasks, n \in FeedbackUsers, f \in Feedbacks :
           add_user_feedback_start(t, n, f)

FeedbackInsert ==
    /\ UNCHANGED <<before, extra>>
    /\ \E t \in Tasks : add_user_feedback_insert(t)

NextOrders == Take \/ Complete \/ Cancel \/ FeedbackCall \/ FeedbackInsert

\* The lifecycle of the orders placed, handlers of any number of requests
\* running concurrently.
SpecOrders == InitOrders /\ [][NextOrders]_vars

\* Who calls what while orders are listed: ann rides, the customers cancel
\* their own orders, bob sends a feedback for his, and the listings are of
\* all orders or of bob's.
ListRiders == {"ann"}
ListOrderIds == {1, 2}
ListNow == {1}
ListCancels == {<<"bob", 1>>, <<"ann", 2>>}
ListFeedbacks == {[order_id |-> 1, rating |-> Some(5), comment |-> None]}
OrdersFilters == {"All", "InProgress", "Completed"}

ListTake ==
    /\ UNCHANGED <<before, extra>>
    /\ \E n \in ListRiders, id \in ListOrderIds : take_order(n, id)

ListComplete ==
    /\ UNCHANGED <<before, extra>>
    /\ \E n \in ListRiders, id \in ListOrderIds, now \in ListNow :
           complete_order(n, id, now)

ListCancel ==
    /\ UNCHANGED <<before, extra>>
    /\ \E c \in ListCancels : delete_untaken_user_order(c[1], c[2])

ListFeedbackCall ==
    /\ UNCHANGED <<before, extra>>
    /\ \E f \in ListFeedbacks : add_user_feedback_start(2, "bob", f)

ListFeedbackInsert ==
    /\ UNCHANGED <<before, extra>>
    /\ add_user_feedback_insert(2)

ListOrders ==
    /\ UNCHANGED <<before, extra>>
    /\ \E filter \in OrdersFilters : orders_start(1, filter)

ListUserOrders ==
    /\ UNCHANGED <<before, extra>>
    /\ \E filter \in OrdersFilters : user_orders_start(1, "bob", filter)

ListStep ==
    /\ UNCHANGED <<before, extra>>
    /\ query_orders_step(1)

NextList ==
    \/ ListTake \/ ListComplete \/ ListCancel \/ ListFeedbackCall
    \/ ListFeedbackInsert \/ ListOrders \/ ListUserOrders \/ ListStep

\* Orders listed while the lifecycle handlers run concurrently.
SpecList == InitOrders /\ [][NextList]_vars

\* What the callers do in a behaviour of SpecMerge: ann edits and reads her
\* cart while a manager extends the catalog ("cart"); ann and bob edit their
\* favorites while ann reads hers ("favorites"); ann checks out her cart of two
\* lines while her orders are listed ("orders").
Scenes == {"cart", "favorites", "orders"}
NewCategory == 2
NewFood == 2
SortCartBys == {"Count", "AddTime"}
SortOrders == {"Ascending", "Descending"}
FavoriteUsers == {"ann", "bob"}

InitMerge ==
    /\ InitAccounts
    /\ scene \in Scenes
    /\ cart = IF scene = "orders"
              THEN {[id |-> 1, user_id |-> 1, food_id |-> 1, count |-> 2, add_time |-> 1],
                    [id |-> 2, user_id |-> 1, food_id |-> 2, count |-> 1, add_time |-> 2]}
              ELSE {}
    /\ nextCartId = IF scene = "orders" THEN 3 ELSE 1
    /\ orders = {}
    /\ nextOrderId = 1
    /\ order_food = {}
    /\ feedbacks = {}
    /\ task = [t \in Tasks |-> IdleTask]
    /\ ret = [op |-> "none", kind |-> "ok", val |-> NULL, caller |-> "", id |-> NULL]
    /\ before = NoCall
    /\ took = {}
    /\ favorites = {}
    /\ nextFavoriteId = 1
    /\ categories = {1}
    /\ food_category = IF scene = "cart" THEN [f \in Foods \ {NewFood} |-> 1]
                       ELSE [f \in Foods |-> 1]
    /\ food_columns = [f \in DOMAIN food_category |-> FoodColumns(f)]

\* What no handler changes: the history and the choice of the scene.
fixed == <<before, scene, accounts, notes>>

MergeCartAdd ==
    /\ scene = "cart"
    /\ UNCHANGED <<fixed, favorites, nextFavoriteId, catalog>>
    /\ \E f \in Foods, c \in Counts : add_user_cart_item("ann", f, c)

MergeCartDelete ==
    /\ scene = "cart"
    /\ UNCHANGED <<fixed, favorites, nextFavoriteId, catalog>>
    /\ \E id \in 1..MaxCartId : delete_user_cart_item("ann", id)

MergeAddCategory ==
    /\ scene = "cart"
    /\ UNCHANGED fixed
    /\ add_category(NewCategory)

MergeAddFood ==
    /\ scene = "cart"
    /\ UNCHANGED fixed
    /\ \E c \in {1, NewCategory} : add_food(NewFood, c)

MergeUserCart ==
    /\ scene = "cart"
    /\ UNCHANGED <<fixed, extra>>
    /\ \E by \in SortCartBys, sort_order \in SortOrders :
           user_cart_start(1, "ann", by, sort_order)

MergeFavoriteAdd ==
    /\ scene = "favorites"
    /\ UNCHANGED fixed
    /\ \E n \in FavoriteUsers, f \in Foods : add_user_favorite(n, f)

MergeFavoriteDelete ==
    /\ scene = "favorites"
    /\ UNCHANGED fixed
    /\ \E n \in FavoriteUsers, id \in 1..MaxFavoriteId : delete_user_favorite(n, id)

MergeUserFavorites ==
    /\ scene = "favorites"
    /\ UNCHANGED <<fixed, extra>>
    /\ user_favorites_start(1, "ann")

MergeReadStep ==
    /\ UNCHANGED <<fixed, extra>>
    /\ read_step(1)

MergeCheckoutCall ==
    /\ scene = "orders"
    /\ UNCHANGED <<fixed, extra>>
    /\ make_order_start(2, "ann", 1)

MergeCheckoutStep ==
    /\ UNCHANGED <<fixed, extra>>
    /\ make_order_step(2)

MergeUserOrders ==
    /\ scene = "orders"
    /\ UNCHANGED <<fixed, extra>>
    /\ user_orders_start(1, "ann", "All")

MergeListStep ==
    /\ UNCHANGED <<fixed, extra>>
    /\ query_orders_step(1)

NextMerge ==
    \/ MergeCartAdd \/ MergeCartDelete \/ MergeAddCategory \/ MergeAddFood
    \/ MergeUserCart \/ MergeFavoriteAdd \/ MergeFavoriteDelete
    \/ MergeUserFavorites \/ MergeReadStep \/ MergeCheckoutCall
    \/ MergeCheckoutStep \/ MergeUserOrders \/ MergeListStep

\* The aggregation reads while other handlers change what they read.
SpecMerge == InitMerge /\ [][NextMerge]_vars

(* SpecSort: sorted reads of a catalog and a cart whose sort keys are drawn
   from bounded sets, with rows that compare equal. *)

\* The food rows of the catalog and the titles (by rank) and counts they take.
SortFoods == 1..MaxFoodId
Titles == {1, 2, 3}
SortFoodBys == {"Title", "Count", "Price"}
SortCategories == {1, 2}

SortScenes == {"food", "cart"}

\* One category holding every food.  Either the titles and counts of the food
\* are drawn from their sets and the catalog is read ("food"), or ann's cart
\* holds one line per food, the counts drawn from theirs, and is read ("cart").
InitSort ==
    /\ InitAccounts
    /\ scene \in SortScenes
    /\ categories = SortCategories
    /\ food_category = [f \in SortFoods |-> 1]
    /\ IF scene = "food"
       THEN /\ food_columns \in [SortFoods -> [title : Titles, count : Counts]]
            /\ cart = {}
       ELSE /\ food_columns = [f \in SortFoods |-> FoodColumns(f)]
            /\ \E count \in [SortFoods -> Counts] :
                   cart = {[id |-> f, user_id |-> users["ann"], food_id |-> f,
                            count |-> count[f], add_time |-> f] : f \in SortFoods}
    /\ nextCartId = MaxFoodId + 1
    /\ orders = {}
    /\ nextOrderId = 1
    /\ order_food = {}
    /\ feedbacks = {}
    /\ task = [t \in Tasks |-> IdleTask]
    /\ ret = [op |-> "none", kind |-> "none", val |-> NULL, caller |-> "", id |-> NULL]
    /\ before = NoCall
    /\ took = {}
    /\ favorites = {}
    /\ nextFavoriteId = 1

SortFoodInCategory ==
    /\ scene = "food"
    /\ UNCHANGED fixed
    /\ \E c \in SortCategories : \E by \in SortFoodBys : \E o \in SortOrders :
           food_in_category(c, by, o)

SortUserCart ==
    /\ scene = "cart"
    /\ UNCHANGED <<fixed, favorites, nextFavoriteId, catalog>>
    /\ \E by \in SortCartBys : \E o \in SortOrders : user_cart_start(1, "ann", by, o)

SortReadStep ==
    /\ UNCHANGED <<fixed, favorites, nextFavoriteId, catalog>>
    /\ read_step(1)

NextSort ==
    \/ SortFoodInCategory
    \/ SortUserCart
    \/ SortReadStep

SpecSort == InitSort /\ [][NextSort]_vars

(* SpecTotal: ann reads her cart, checks it out and lists her orders, one
   request at a time, for every cart of one or two lines. *)

\* The carts ann starts with: a line for each food of a set, with a count.
TotalCarts ==
    {{[id |-> f, user_id |-> users["ann"], food_id |-> f, count |-> count[f],
       add_time |-> f] : f \in foods} :
         foods \in (SUBSET Foods) \ {{}}, count \in [Foods -> Counts]}

InitTotal ==
    /\ InitAccounts
    /\ scene = "total"
    /\ cart \in TotalCarts
    /\ nextCartId = Cardinality(Foods) + 1
    /\ orders = {}
    /\ nextOrderId = 1
    /\ order_food = {}
    /\ feedbacks = {}
    /\ task = [t \in Tasks |-> IdleTask]
    /\ ret = [op |-> "none", kind |-> "none", val |-> NULL, caller |-> "", id |-> NULL]
    /\ before = NoCall
    /\ took = {}
    /\ favorites = {}
    /\ nextFavoriteId = 1
    /\ InitCatalog

TotalUserCart ==
    /\ AllIdle
    /\ UNCHANGED <<fixed, favorites, nextFavoriteId, catalog>>
    /\ \E by \in SortCartBys : \E o \in SortOrders : user_cart_start(1, "ann", by, o)

TotalReadStep ==
    /\ UNCHANGED <<fixed, favorites, nextFavoriteId, catalog>>
    /\ read_step(1)

TotalCheckoutCall ==
    /\ AllIdle
    /\ make_order_start(1, "ann", 1)
    /\ before' = CallSnapshot("ann")
    /\ UNCHANGED extra

TotalCheckoutStep ==
    /\ UNCHANGED <<before, extra>>
    /\ make_order_step(1)

TotalUserOrders ==
    /\ AllIdle
    /\ UNCHANGED <<before, extra>>
    /\ \E f \in OrdersFilters : user_orders_start(1, "ann", f)

TotalListStep ==
    /\ UNCHANGED <<before, extra>>
    /\ query_orders_step(1)

NextTotal ==
    \/ TotalUserCart
    \/ TotalReadStep
    \/ TotalCheckoutCall
    \/ TotalCheckoutStep
    \/ TotalUserOrders
    \/ TotalListStep

SpecTotal == InitTotal /\ [][NextTotal]_vars

(* SpecFrame: what later requests do to the orders that checkouts have
   made, handlers of any number of requests running concurrently. *)

\* Either ann fills carts and checks them out while bob checks out a cart of
\* one line ("carts"), or ann checks out her cart of two lines and bob takes
\* and completes orders while ann cancels and rates them ("lifecycle").
FrameScenes == {"carts", "lifecycle"}
FrameAdds == ({"ann"} \X Foods \X Counts) \cup {<<"bob", 1, 1>>}
FrameBuyers == [t \in Tasks |-> IF t = 1 THEN "ann" ELSE "bob"]
FrameRiders == {"bob"}
FrameCustomers == {"ann"}
FrameOrderIds == 1..MaxOrders
FrameNow == {1}
FrameFeedbacks == {[order_id |-> id, rating |-> Some(5), comment |-> None] :
                       id \in FrameOrderIds}

InitFrame ==
    /\ InitAccounts
    /\ scene \in FrameScenes
    /\ cart = IF scene = "lifecycle"
              THEN {[id |-> 1, user_id |-> 1, food_id |-> 1, count |-> 2, add_time |-> 1],
                    [id |-> 2, user_id |-> 1, food_id |-> 2, count |-> 1, add_time |-> 2]}
              ELSE {}
    /\ nextCartId = IF scene = "lifecycle" THEN 3 ELSE 1
    /\ orders = {}
    /\ nextOrderId = 1
    /\ order_food = {}
    /\ feedbacks = {}
    /\ task = [t \in Tasks |-> IdleTask]
    /\ ret = [op |-> "none", kind |-> "ok", val |-> NULL, caller |-> "", id |-> NULL]
    /\ before = NoCall
    /\ took = {}
    /\ favorites = {}
    /\ nextFavoriteId = 1
    /\ InitCatalog

FrameCartAdd ==
    /\ scene = "carts"
    /\ UNCHANGED <<fixed, favorites, nextFavoriteId, catalog>>
    /\ \E a \in FrameAdds : add_user_cart_item(a[1], a[2], a[3])

FrameCartDelete ==
    /\ scene = "carts"
    /\ UNCHANGED <<fixed, favorites, nextFavoriteId, catalog>>
    /\ \E n \in FrameCustomers, id \in 1..MaxCartId : delete_user_cart_item(n, id)

FrameCheckoutCall ==
    /\ UNCHANGED <<fixed, favorites, nextFavoriteId, catalog>>
    /\ \E t \in Tasks :
           /\ scene = "lifecycle" => t = 1
           /\ make_order_start(t, FrameBuyers[t], users[FrameBuyers[t]])

FrameCheckoutStep ==
    /\ UNCHANGED <<fixed, favorites, nextFavoriteId, catalog>>
    /\ \E t \in Tasks : make_order_step(t)

FrameTake ==
    /\ scene = "lifecycle"
    /\ UNCHANGED <<fixed, favorites, nextFavoriteId, catalog>>
    /\ \E n \in FrameRiders, id \in FrameOrderIds : take_order(n, id)

FrameComplete ==
    /\ scene = "lifecycle"
    /\ UNCHANGED <<fixed, favorites, nextFavoriteId, catalog>>
    /\ \E n \in FrameRiders, id \in FrameOrderIds, now \in FrameNow :
           complete_order(n, id, now)

FrameCancel ==
    /\ scene = "lifecycle"
    /\ UNCHANGED <<fixed, favorites, nextFavoriteId, catalog>>
    /\ \E n \in FrameCustomers, id \in FrameOrderIds :
           delete_untaken_user_order(n, id)

FrameFeedbackCall ==
    /\ scene = "lifecycle"
    /\ UNCHANGED <<fixed, favorites, nextFavoriteId, catalog>>
    /\ \E n \in FrameCustomers, f \in FrameFeedbacks :
           add_user_feedback_start(2, n, f)

FrameFeedbackInsert ==
    /\ scene = "lifecycle"
    /\ UNCHANGED <<fixed, favorites, nextFavoriteId, catalog>>
    /\ add_user_feedback_insert(2)

NextFrame ==
    \/ FrameCartAdd
    \/ FrameCartDelete
    \/ FrameCheckoutCall
    \/ FrameCheckoutStep
    \/ FrameTake
    \/ FrameComplete
    \/ FrameCancel
    \/ FrameFeedbackCall
    \/ FrameFeedbackInsert

SpecFrame == InitFrame /\ [][NextFrame]_vars

(* ------------------- users, addresses and deletions -------------------- *)

\* The scenes: rows of two users deleted by either of them ("deletes"), every
\* handler called with a username of no user ("unknown"), sign-ups
\* ("signup"), role changes by managers ("roles"), and checkouts to an address
\* of the caller's, of the other user's and of nobody's ("checkout").
AccountScenes == {"deletes", "unknown", "signup", "roles", "checkout"}
AccountCallers == IF scene = "unknown" THEN {"nobody"} ELSE {"ann", "bob"}
AccountIds == {1, 2, 3}
SignUpNames == {"ann", "cat", "dan"}
RoleCallers == {"ann", "bob", "cat"}
RoleTargets == {"ann", "bob", "nobody"}
RoleChoices == {"Customer", "Manager"}
AccountFeedbacks == {[order_id |-> 2, rating |-> Some(5), comment |-> None]}

InitAccountScenes ==
    /\ scene \in AccountScenes
    /\ user_table =
           IF scene = "roles"
           THEN {[id |-> 1, username |-> "ann", role |-> "Manager"],
                 [id |-> 2, username |-> "bob", role |-> "Manager"],
                 [id |-> 3, username |-> "cat", role |-> "Customer"]}
           ELSE {[id |-> 1, username |-> "ann", role |-> "Customer"],
                 [id |-> 2, username |-> "bob", role |-> "Rider"]}
    /\ nextUserId = IF scene = "roles" THEN 4 ELSE 3
    /\ addresses = {[id |-> 1, user_id |-> 1], [id |-> 2, user_id |-> 2]}
    /\ nextAddressId = 3
    /\ notifications = {}
    /\ nextNotificationId = 1
    /\ cart = {[id |-> 1, user_id |-> 1, food_id |-> 1, count |-> 2, add_time |-> 1],
               [id |-> 2, user_id |-> 2, food_id |-> 1, count |-> 1, add_time |-> 2]}
    /\ nextCartId = 3
    /\ favorites = {[id |-> 1, user_id |-> 1, food_id |-> 2, add_time |-> 1],
                    [id |-> 2, user_id |-> 2, food_id |-> 2, add_time |-> 2]}
    /\ nextFavoriteId = 3
    /\ orders = IF scene = "unknown"
                THEN {[id |-> 1, customer_id |-> 1, address_id |-> 1,
                       rider_id |-> NULL, completed_time |-> NULL],
                      [id |-> 2, customer_id |-> 1, address_id |-> 1,
                       rider_id |-> 2, completed_time |-> 1]}
                ELSE {}
    /\ nextOrderId = IF scene = "unknown" THEN 3 ELSE 1
    /\ order_food = IF scene = "unknown"
                    THEN {[order_id |-> 1, food_id |-> 1, count |-> 1],
                          [order_id |-> 2, food_id |-> 2, count |-> 1]}
                    ELSE {}
    /\ feedbacks = {}
    /\ task = [t \in Tasks |-> IdleTask]
    /\ ret = [op |-> "none", kind |-> "none", val |-> NULL, caller |-> "", id |-> NULL]
    /\ before = NoCall
    /\ took = {}
    /\ InitCatalog

\* What the handlers of the store leave alone here.
kept == <<before, scene, notes>>

AccountsCartDelete ==
    /\ scene \in {"deletes", "unknown"}
    /\ UNCHANGED <<kept, accounts, favorites, nextFavoriteId, catalog>>
    /\ \E n \in AccountCallers, id \in AccountIds : delete_user_cart_item(n, id)

AccountsFavoriteDelete ==
    /\ scene \in {"deletes", "unknown"}
    /\ UNCHANGED <<kept, accounts>>
    /\ \E n \in AccountCallers, id \in AccountIds : delete_user_favorite(n, id)

AccountsAddressAdd ==
    /\ scene \in {"deletes", "unknown"}
    /\ UNCHANGED kept
    /\ \E n \in AccountCallers : add_user_address(n)

AccountsAddressDelete ==
    /\ scene \in {"deletes", "unknown"}
    /\ UNCHANGED kept
    /\ \E n \in AccountCallers, id \in AccountIds : delete_user_address(n, id)

AccountsCartAdd ==
    /\ scene = "unknown"
    /\ UNCHANGED <<kept, accounts, favorites, nextFavoriteId, catalog>>
    /\ \E n \in AccountCallers, f \in Foods, c \in Counts : add_user_cart_item(n, f, c)

AccountsFavoriteAdd ==
    /\ scene = "unknown"
    /\ UNCHANGED <<kept, accounts>>
    /\ \E n \in AccountCallers, f \in Foods : add_user_favorite(n, f)

AccountsCheckout ==
    /\ scene \in {"unknown", "checkout"}
    /\ UNCHANGED <<kept, extra>>
    /\ \E t \in Tasks, n \in AccountCallers, a \in AccountIds : make_order_start(t, n, a)

AccountsCheckoutStep ==
    /\ UNCHANGED <<kept, extra>>
    /\ \E t \in Tasks : make_order_step(t)

AccountsTake ==
    /\ scene = "unknown"
    /\ UNCHANGED <<kept, extra>>
    /\ \E n \in AccountCallers, id \in AccountIds : take_order(n, id)

AccountsComplete ==
    /\ scene = "unknown"
    /\ UNCHANGED <<kept, extra>>
    /\ \E n \in AccountCallers, id \in AccountIds : complete_order(n, id, 2)

AccountsCancel ==
    /\ scene = "unknown"
    /\ UNCHANGED <<kept, extra>>
    /\ \E n \in AccountCallers, id \in AccountIds : delete_untaken_user_order(n, id)

AccountsFeedback ==
    /\ scene = "unknown"
    /\ UNCHANGED <<kept, extra>>
    /\ \E t \in Tasks, n \in AccountCallers, f \in AccountFeedbacks :
           add_user_feedback_start(t, n, f)

AccountsUserCart ==
    /\ scene = "unknown"
    /\ UNCHANGED <<kept, extra>>
    /\ \E t \in Tasks, n \in AccountCallers, by \in SortCartBys, o \in SortOrders :
           user_cart_start(t, n, by, o)

AccountsUserFavorites ==
    /\ scene = "unknown"
    /\ UNCHANGED <<kept, extra>>
    /\ \E t \in Tasks, n \in AccountCallers : user_favorites_start(t, n)

AccountsUserOrders ==
    /\ scene = "unknown"
    /\ UNCHANGED <<kept, extra>>
    /\ \E t \in Tasks, n \in AccountCallers, f \in OrdersFilters :
           user_orders_start(t, n, f)

AccountsSignUp ==
    /\ scene = "signup"
    /\ UNCHANGED kept
    /\ \E n \in SignUpNames, role \in UserRoles : sign_up(n, role)

AccountsSetRoleCall ==
    /\ scene \in {"roles", "unknown"}
    /\ UNCHANGED kept
    /\ \E t \in Tasks, role \in RoleChoices :
           \E current \in IF scene = "roles" THEN RoleCallers ELSE AccountCallers,
              n \in IF scene = "roles" THEN RoleTargets ELSE AccountCallers :
               set_user_role_start(t, current, n, role)

AccountsSetRoleStep ==
    /\ UNCHANGED kept
    /\ \E t \in Tasks : set_user_role_step(t)

NextAccounts ==
    \/ AccountsCartDelete \/ AccountsFavoriteDelete \/ AccountsAddressAdd
    \/ AccountsAddressDelete \/ AccountsCartAdd \/ AccountsFavoriteAdd
    \/ AccountsCheckout \/ AccountsCheckoutStep \/ AccountsTake \/ AccountsComplete \/ AccountsCancel
    \/ AccountsFeedback \/ AccountsUserCart \/ AccountsUserFavorites
    \/ AccountsUserOrders \/ AccountsSignUp \/ AccountsSetRoleCall
    \/ AccountsSetRoleStep

\* Users, roles and addresses, and the deletions of rows by their id.
SpecAccounts == InitAccountScenes /\ [][NextAccounts]_vars

(* ------------------------- feedback contents --------------------------- *)

\* Feedback.rating is an Option<i16>: the ratings sent, in and out of 0..5.
Ratings == {None, Some(0 - 1), Some(0), Some(5), Some(6)}
Comments == {None, Some("good")}
RatedFeedbacks == {[order_id |-> id, rating |-> r, comment |-> c] :
                      id \in {1}, r \in Ratings, c \in Comments}

\* Two completed orders of ann, delivered by bob, without feedback.
InitRatings ==
    /\ InitExtra
    /\ cart = {}
    /\ nextCartId = 1
    /\ orders = {[id |-> 1, customer_id |-> 1, address_id |-> 1,
                  rider_id |-> 2, completed_time |-> 1],
                 [id |-> 2, customer_id |-> 1, address_id |-> 1,
                  rider_id |-> 2, completed_time |-> 2]}
    /\ nextOrderId = 3
    /\ order_food = {[order_id |-> 1, food_id |-> 1, count |-> 1],
                     [order_id |-> 2, food_id |-> 2, count |-> 1]}
    /\ feedbacks = {}
    /\ task = [t \in Tasks |-> IdleTask]
    /\ ret = [op |-> "none", kind |-> "none", val |-> NULL, caller |-> "", id |-> NULL]
    /\ before = NoCall
    /\ took = {}

RatingsFeedbackCall ==
    /\ UNCHANGED <<before, extra>>
    /\ \E t \in Tasks, f \in RatedFeedbacks : add_user_feedback_start(t, "ann", f)

RatingsFeedbackInsert ==
    /\ UNCHANGED <<before, extra>>
    /\ \E t \in Tasks : add_user_feedback_insert(t)

NextRatings == RatingsFeedbackCall \/ RatingsFeedbackInsert

\* Feedback of every content sent for completed orders.
SpecRatings == InitRatings /\ [][NextRatings]_vars

(* ----------------------- resolvers behind a role ----------------------- *)

\* The scenes: the catalog changed ("catalog"), notifications sent ("notify"),
\* the users and the orders listed ("listing").  Their callers are a customer
\* (ann), a rider (bob), a manager (cat) and a name of no user; dan is a second
\* customer.
AccessScenes == {"catalog", "notify", "listing"}
AccessCallers == {"ann", "bob", "cat", "nobody"}
SceneResolvers ==
    CASE scene = "catalog" ->
             {"add_category", "delete_category", "add_food", "delete_food"}
      [] scene = "notify" -> {"send_direct_notification", "broadcast_notification"}
      [] scene = "listing" -> {"users", "orders"}
NoArgs == [id |-> NULL, category_id |-> NULL, role |-> "", filter |-> ""]
AccessArgs(op) ==
    CASE op = "add_category" -> {[NoArgs EXCEPT !.id = 2]}
      [] op = "delete_category" -> {[NoArgs EXCEPT !.id = id] : id \in {2, 3}}
      [] op = "add_food" ->
             {[NoArgs EXCEPT !.id = 3, !.category_id = c] : c \in {1, 2}}
      [] op = "delete_food" -> {[NoArgs EXCEPT !.id = 3]}
      [] op = "send_direct_notification" ->
             {[NoArgs EXCEPT !.id = id] : id \in {1, 2}}
      [] op = "broadcast_notification" ->
             {[NoArgs EXCEPT !.role = role] : role \in UserRoles}
      [] op = "users" -> {NoArgs}
      [] op = "orders" -> {[NoArgs EXCEPT !.filter = f] : f \in OrdersFilters}

InitAccess ==
    /\ scene \in AccessScenes
    /\ user_table = {[id |-> 1, username |-> "ann", role |-> "Customer"],
                     [id |-> 2, username |-> "bob", role |-> "Rider"],
                     [id |-> 3, username |-> "cat", role |-> "Manager"],
                     [id |-> 4, username |-> "dan", role |-> "Customer"]}
    /\ nextUserId = 5
    /\ addresses = {[id |-> 1, user_id |-> 1], [id |-> 2, user_id |-> 2]}
    /\ nextAddressId = 3
    /\ notifications = {}
    /\ nextNotificationId = 1
    /\ favorites = {}
    /\ nextFavoriteId = 1
    /\ categories = {1}
    /\ food_category = [f \in Foods |-> 1]
    /\ food_columns = [f \in Foods |-> FoodColumns(f)]
    /\ cart = {}
    /\ nextCartId = 1
    /\ orders = IF scene = "listing"
                THEN {[id |-> 1, customer_id |-> 1, address_id |-> 1,
                       rider_id |-> 2, completed_time |-> NULL],
                      [id |-> 2, customer_id |-> 4, address_id |-> 1,
                       rider_id |-> 2, completed_time |-> 1]}
                ELSE {}
    /\ nextOrderId = IF scene = "listing" THEN 3 ELSE 1
    /\ order_food = IF scene = "listing"
                    THEN {[order_id |-> 1, food_id |-> 1, count |-> 2],
                          [order_id |-> 2, food_id |-> 2, count |-> 1]}
                    ELSE {}
    /\ feedbacks = {}
    /\ task = [t \in Tasks |-> IdleTask]
    /\ ret = [op |-> "none", kind |-> "none", val |-> NULL, caller |-> "",
              id |-> NULL]
    /\ before = NoCall
    /\ took = {}

AccessCall ==
    /\ UNCHANGED <<before, scene>>
    /\ \E t \in Tasks, op \in SceneResolvers, current \in AccessCallers :
         \E args \in AccessArgs(op) : resolver_start(t, op, current, args)

AccessAddCategory ==
    /\ UNCHANGED <<before, scene>>
    /\ \E t \in Tasks : add_category_allowed(t)

AccessDeleteCategory ==
    /\ UNCHANGED <<before, scene>>
    /\ \E t \in Tasks : delete_category_allowed(t)

AccessAddFood ==
    /\ UNCHANGED <<before, scene>>
    /\ \E t \in Tasks : add_food_allowed(t)

AccessDeleteFood ==
    /\ UNCHANGED <<before, scene>>
    /\ \E t \in Tasks : delete_food_allowed(t)

AccessDirect ==
    /\ UNCHANGED <<before, scene>>
    /\ \E t \in Tasks : send_direct_notification_allowed(t)

AccessBroadcast ==
    /\ UNCHANGED <<before, scene>>
    /\ \E t \in Tasks : add_notifications_users(t)

AccessBroadcastInsert ==
    /\ UNCHANGED <<before, scene>>
    /\ \E t \in Tasks : add_notifications_insert(t)

AccessUsers ==
    /\ UNCHANGED <<before, scene>>
    /\ \E t \in Tasks : users_allowed(t)

AccessOrders ==
    /\ UNCHANGED <<before, extra>>
    /\ \E t \in Tasks : orders_allowed(t)

AccessOrdersStep ==
    /\ UNCHANGED <<before, extra>>
    /\ \E t \in Tasks : query_orders_step(t)

NextAccess ==
    \/ AccessCall \/ AccessAddCategory \/ AccessDeleteCategory \/ AccessAddFood
    \/ AccessDeleteFood \/ AccessDirect \/ AccessBroadcast
    \/ AccessBroadcastInsert \/ AccessUsers \/ AccessOrders \/ AccessOrdersStep

\* The resolvers behind a role, called by users of every role, two at a time.
SpecAccess == InitAccess /\ [][NextAccess]_vars

(* ------------------------- filtered listings --------------------------- *)

\* ann has a completed order and a cart; her checkout makes a second order
\* while her orders are listed under each filter and bob takes the new order.
InitHydrate ==
    /\ InitExtra
    /\ cart = {[id |-> 1, user_id |-> 1, food_id |-> 1, count |-> 2, add_time |-> 1],
               [id |-> 2, user_id |-> 1, food_id |-> 2, count |-> 1, add_time |-> 2]}
    /\ nextCartId = 3
    /\ orders = {[id |-> 1, customer_id |-> 1, address_id |-> 1,
                  rider_id |-> 2, completed_time |-> 1]}
    /\ nextOrderId = 2
    /\ order_food = {[order_id |-> 1, food_id |-> 1, count |-> 1]}
    /\ feedbacks = {}
    /\ task = [t \in Tasks |-> IdleTask]
    /\ ret = [op |-> "none", kind |-> "none", val |-> NULL, caller |-> "",
              id |-> NULL]
    /\ before = NoCall
    /\ took = {}

HydrateCheckoutCall ==
    /\ UNCHANGED <<before, extra>>
    /\ make_order_start(2, "ann", 1)

HydrateCheckoutStep ==
    /\ UNCHANGED <<before, extra>>
    /\ make_order_step(2)

HydrateTake ==
    /\ UNCHANGED <<before, extra>>
    /\ take_order("bob", 2)

HydrateUserOrders ==
    /\ UNCHANGED <<before, extra>>
    /\ \E filter \in OrdersFilters : user_orders_start(1, "ann", filter)

HydrateOrders ==
    /\ UNCHANGED <<before, extra>>
    /\ \E filter \in OrdersFilters : orders_start(1, filter)

HydrateListStep ==
    /\ UNCHANGED <<before, extra>>
    /\ query_orders_step(1)

NextHydrate ==
    \/ HydrateCheckoutCall \/ HydrateCheckoutStep \/ HydrateTake
    \/ HydrateUserOrders \/ HydrateOrders \/ HydrateListStep

\* Filtered listings while a checkout inserts an order line by line.
SpecHydrate == InitHydrate /\ [][NextHydrate]_vars

(* ------------------------- authenticated requests ---------------------- *)

\* The scenes: the app data holds the Client ("registered", as main builds
\* the app) or not ("unregistered").  ann and bob have signed up, cat signs
\* up meanwhile; the requests carry the usernames and passwords of AuthUsers
\* and AuthPasswords.
AuthScenes == {"registered", "unregistered"}
AuthUsers == {"ann", "cat", "nobody"}
AuthPasswords == {Passwords["ann"], Passwords["cat"], ""}

InitAuth ==
    /\ scene \in AuthScenes
    /\ InitAccounts
    /\ favorites = {}
    /\ nextFavoriteId = 1
    /\ categories = {1}
    /\ food_category = [f \in Foods |-> 1]
    /\ food_columns = [f \in Foods |-> FoodColumns(f)]
    /\ cart = {}
    /\ nextCartId = 1
    /\ orders = {}
    /\ nextOrderId = 1
    /\ order_food = {}
    /\ feedbacks = {}
    /\ task = [t \in Tasks |-> IdleTask]
    /\ ret = [op |-> "none", kind |-> "none", val |-> NULL, caller |-> "",
              id |-> NULL]
    /\ before = NoCall
    /\ took = {}

AuthRequest ==
    /\ UNCHANGED <<before, scene>>
    /\ \E t \in Tasks, service \in Services, user \in AuthUsers,
          password \in AuthPasswords :
           auth_validator(t, service, user, password, scene = "registered")

AuthService ==
    /\ UNCHANGED <<before, scene>>
    /\ \E t \in Tasks : service_run(t)

AuthSignUp ==
    /\ UNCHANGED kept
    /\ \E role \in UserRoles : sign_up("cat", role)

NextAuth == AuthRequest \/ AuthService \/ AuthSignUp

\* Requests to the wrapped services, with good and bad credentials.
SpecAuth == InitAuth /\ [][NextAuth]_vars

(* ------------------------------ checkout claims ------------------------ *)

\* The checkout that returned last, in SpecSeq: its caller's cart when it was
\* called, and the line items of an order.
Returned(op) == AllIdle /\ ret.op = op
Cart0 == {c \in before.cart : c.user_id = before.user_id}
ItemsOf(order_id) == {i \in order_food : i.order_id = order_id}

\* C1: a checkout that runs alone on a cart of N lines for N foods creates
\* exactly one order, with exactly N line items whose (food, quantity) pairs
\* are the cart's, and leaves the caller's cart empty; a checkout called right
\* after a successful one fails with the empty-cart error (or on the store).
C1_CheckoutAlone ==
    (Returned("make_order_from_user_cart") /\ before.user_id # NULL) =>
        /\ ret.kind = "ok" =>
              /\ Cart0 # {}
              /\ \E o \in orders :
                     /\ o.id = ret.val
                     /\ o.customer_id = before.user_id
                     /\ o \notin before.orders
                     /\ orders = before.orders \cup {o}
              /\ order_food = before.order_food \cup ItemsOf(ret.val)
              /\ ItemsOf(ret.val) \cap before.order_food = {}
              /\ Cardinality(ItemsOf(ret.val)) = Cardinality(Cart0)
              /\ Pairs(ItemsOf(ret.val)) = Pairs(Cart0)
              /\ cart = before.cart \ Cart0
              /\ UserCart(before.user_id) = {}
        /\ (before.ret.op = "make_order_from_user_cart" /\ before.ret.kind = "ok") =>
              ret.kind \in {EmptyCartError, StoreError}

\* C1 witness: the checkout of a two-line cart with different quantities has
\* made an order of two line items, and the checkout called next has failed
\* with the empty-cart error.
C1_Witness ==
    /\ Returned("make_order_from_user_cart")
    /\ ret.kind = EmptyCartError
    /\ before.ret.op = "make_order_from_user_cart"
    /\ before.ret.kind = "ok"
    /\ \E o \in orders : Pairs(ItemsOf(o.id)) = {<<1, 2>>, <<2, 1>>}

\* C2: the cart lines a checkout removes are the line items of the order it
\* made (what its final delete removes is what it copied).
C2_CheckoutIsolated ==
    [][\A t \in Tasks :
          (make_order_delete_cart(t) /\ ret'.kind = "ok") =>
              Pairs(cart \ cart') = Pairs(ItemsOf(task[t].order_id))]_vars

\* The cart lines task t has copied into its order so far.
Consumed(t) == {task[t].cart_items[k].id : k \in 1..task[t].inserted}

\* C3: no cart line is consumed into the orders of two checkouts.
C3_LineConsumedOnce ==
    \A t1, t2 \in Tasks : t1 # t2 => Consumed(t1) \cap Consumed(t2) = {}

\* C4: a checkout that fails on the store leaves no order of its own with
\* fewer line items than its cart had lines.
C4_NoPartialOrder ==
    [][\A t \in Tasks :
          (/\ make_order_step(t)
           /\ ret'.op = "make_order_from_user_cart"
           /\ ret'.kind = StoreError
           /\ task[t].order_id # NULL) =>
              ~ \E o \in orders' :
                    /\ o.id = task[t].order_id
                    /\ Cardinality({i \in order_food' : i.order_id = o.id})
                           < Len(task[t].cart_items)]_vars

\* C5: a checkout called for a user whose cart has no lines returns the
\* empty-cart error (unless a fetch fails on the store) and leaves the orders,
\* the line items and every cart as they were.
C5_EmptyCart ==
    (Returned("make_order_from_user_cart") /\ before.user_id # NULL /\ Cart0 = {}) =>
        /\ ret.kind \in {EmptyCartError, StoreError}
        /\ orders = before.orders
        /\ order_food = before.order_food
        /\ cart = before.cart

\* C5 witness: the empty-cart error was returned while another user's cart
\* and an earlier order are in the store.
C5_Witness ==
    /\ Returned("make_order_from_user_cart")
    /\ ret.kind = EmptyCartError
    /\ Cart0 = {}
    /\ cart # {}
    /\ orders # {}

(* --------------------------- lifecycle claims -------------------------- *)

\* The order with the id, as a set of at most one row.
OrderWith(id) == {o \in orders : o.id = id}

\* C6: take_order returns true, and makes the caller the order's rider, exactly
\* when the order exists, has no rider and is not completed; otherwise it
\* returns false (or fails on the store) and changes no order, so that a rider
\* once assigned stays.
C6_TakeOrder ==
    [][(ret'.op = "take_order" /\ take_order(ret'.caller, ret'.id)) =>
              LET n == ret'.caller
                  id == ret'.id
                  free == {o \in OrderWith(id) :
                               o.rider_id = NULL /\ o.completed_time = NULL} IN
              /\ ret'.kind = "ok" => ret'.val = (free # {})
              /\ orders' = IF ret'.kind = "ok"
                           THEN (orders \ free) \cup
                                    {[o EXCEPT !.rider_id = users[n]] : o \in free}
                           ELSE orders
              /\ \A o \in orders : o.rider_id # NULL => o \in orders']_vars

\* C6 witness: a take of an order that another user had taken returned false,
\* and the order still has its rider.
C6_Witness ==
    /\ ret.op = "take_order"
    /\ ret.kind = "ok"
    /\ ret.val = FALSE
    /\ \E o \in orders :
           /\ o.id = ret.id
           /\ o.rider_id # NULL
           /\ o.rider_id # users[ret.caller]
           /\ o.completed_time = NULL

\* The users whose take of the order returned true.
Winners(id) == {p[1] : p \in {q \in took : q[2] = id}}

\* C7: of all the takes of one order, whatever their interleaving, at most one
\* returns true; the order's rider is the caller of that take, and a take
\* returns false only once another has returned true.
C7_OneTaker ==
    \A id \in LifeOrderIds :
        /\ Cardinality(Winners(id)) <= 1
        /\ \A o \in OrderWith(id) :
               /\ Winners(id) = IF o.rider_id = NULL THEN {} ELSE {o.rider_id}
               /\ (ret.op = "take_order" /\ ret.kind = "ok" /\ ret.id = id
                   /\ ret.val = FALSE) => Winners(id) # {}

\* C7 witness: two different users have taken the same order; the take of one
\* returned true and the take of the other, after it, false.
C7_Witness ==
    /\ ret.op = "take_order"
    /\ ret.kind = "ok"
    /\ ret.val = FALSE
    /\ Winners(ret.id) # {}
    /\ users[ret.caller] \notin Winners(ret.id)
    /\ \E o \in OrderWith(ret.id) : {o.rider_id} = Winners(ret.id)

\* C8: complete_order returns true, and stamps the completion time, exactly
\* when the order's rider is the caller and the order is not completed;
\* otherwise it returns false (or fails on the store) and changes no order.
C8_CompleteOrder ==
    [][\A now \in Times :
          (ret'.op = "complete_order" /\ complete_order(ret'.caller, ret'.id, now)) =>
              LET n == ret'.caller
                  id == ret'.id
                  mine == {o \in OrderWith(id) :
                               o.rider_id = users[n] /\ o.completed_time = NULL} IN
              /\ ret'.kind = "ok" => ret'.val = (mine # {})
              /\ orders' = IF ret'.kind = "ok"
                           THEN (orders \ mine) \cup
                                    {[o EXCEPT !.completed_time = now] : o \in mine}
                           ELSE orders
              /\ \A o \in orders : o.completed_time # NULL => o \in orders']_vars

\* C8 witness: the rider of a completed order has called complete_order on it
\* again and got false.
C8_Witness ==
    /\ ret.op = "complete_order"
    /\ ret.kind = "ok"
    /\ ret.val = FALSE
    /\ \E o \in OrderWith(ret.id) :
           o.rider_id = users[ret.caller] /\ o.completed_time # NULL

\* C9: delete_untaken_user_order returns true, and deletes the order with its
\* line items, exactly when the caller is the order's customer and the order
\* has no rider; otherwise it returns false (or fails on the store) and the
\* orders and line items stay as they were.
C9_DeleteUntaken ==
    [][(/\ ret'.op = "delete_untaken_user_order"
        /\ delete_untaken_user_order(ret'.caller, ret'.id)) =>
              LET n == ret'.caller
                  id == ret'.id
                  own == {o \in OrderWith(id) :
                              o.customer_id = users[n] /\ o.rider_id = NULL} IN
              /\ ret'.kind = "ok" => ret'.val = (own # {})
              /\ IF ret'.kind = "ok" /\ own # {}
                 THEN /\ orders' = orders \ own
                      /\ order_food' = order_food \ ItemsOf(id)
                 ELSE /\ orders' = orders
                      /\ order_food' = order_food]_vars

\* C9 witness: the customer of an order that has a rider has called
\* delete_untaken_user_order on it and got false; the order has its line items.
C9_Witness ==
    /\ ret.op = "delete_untaken_user_order"
    /\ ret.kind = "ok"
    /\ ret.val = FALSE
    /\ \E o \in OrderWith(ret.id) :
           o.customer_id = users[ret.caller] /\ o.rider_id # NULL
    /\ ItemsOf(ret.id) # {}

\* C10: whatever the interleaving of the add_user_feedback calls, an order
\* carries at most one feedback, and a call succeeds only for an order that
\* carried none.
C10_OneFeedback ==
    [][/\ \A id \in LifeOrderIds :
              Cardinality({f \in feedbacks' : f.order_id = id}) <= 1
       /\ \A t \in Tasks :
              (add_user_feedback_insert(t) /\ ret'.kind = "ok") =>
                  order_feedback(task[t].feedback.order_id) = {}]_vars

\* C10 witness: two calls for the same order were both past the check of the
\* order; one has added its feedback and the other is about to insert.
C10_Witness ==
    /\ ret.op = "add_user_feedback"
    /\ ret.kind = "ok"
    /\ \E t \in Tasks :
           /\ task[t].pc = "insert_feedback"
           /\ order_feedback(task[t].feedback.order_id) # {}

(* ---------------------------- feedback claims -------------------------- *)

\* The orders with the id that are completed and whose customer is the user.
CompletedOwn(user_id, order_id) ==
    {o \in OrderWith(order_id) :
         o.customer_id = user_id /\ o.completed_time # NULL}

\* C11: add_user_feedback gets past its check of the order, and stores a
\* feedback, only for an order that is completed and whose customer is the
\* caller; every stored feedback is of an order with a completion time.
C11_FeedbackOfCompletedOwn ==
    [][/\ \A t \in Tasks :
              /\ (task[t].pc = "idle" /\ task'[t].pc = "insert_feedback") =>
                     CompletedOwn(task'[t].user_id, task'[t].feedback.order_id) # {}
              /\ (add_user_feedback_insert(t) /\ ret'.kind = "ok") =>
                     CompletedOwn(task[t].user_id, task[t].feedback.order_id) # {}
       /\ \A f \in feedbacks' :
              \E o \in orders' : o.id = f.order_id /\ o.completed_time # NULL]_vars

\* C11 witness: a feedback with content for a completed order was rejected
\* with the no-such-order error because the caller is not the order's
\* customer; the order's customer has stored a feedback for it.
C11_Witness ==
    /\ ret.op = "add_user_feedback"
    /\ ret.kind = NoOrderError
    /\ \E o \in OrderWith(ret.id) :
           /\ o.completed_time # NULL
           /\ o.customer_id # users[ret.caller]
    /\ order_feedback(ret.id) # {}

\* C12: add_user_feedback with neither rating nor comment returns the
\* no-content error at once, whoever calls and whatever the order: the store
\* is as it was and no statement is left to run.
C12_NoContent ==
    [][\A t \in Tasks :
          LET feedback == [order_id |-> ret'.id, rating |-> None, comment |-> None] IN
          (/\ ret'.op = "add_user_feedback"
           /\ ret'.caller \in FeedbackUsers
           /\ add_user_feedback_start(t, ret'.caller, feedback)) =>
              /\ ret'.kind = NoContentError
              /\ UNCHANGED store
              /\ task'[t] = IdleTask]_vars

\* C12 witness: the no-content error was returned to the customer of a
\* completed order that carries no feedback.
C12_Witness ==
    /\ ret.op = "add_user_feedback"
    /\ ret.kind = NoContentError
    /\ ret.caller \in DOMAIN users
    /\ CompletedOwn(users[ret.caller], ret.id) # {}
    /\ order_feedback(ret.id) = {}

(* ---------------------------- listing claims --------------------------- *)

\* The orders a result holds, and what each filter is to keep of the rows.
IndexedOrders(result) == {order.indexed_order : order \in Range(result)}
Kept(filter, rows) ==
    CASE filter = "All" -> rows
      [] filter = "InProgress" ->
             {o \in rows : o.rider_id # NULL /\ o.completed_time = NULL}
      [] filter = "Completed" -> {o \in rows : o.completed_time # NULL}

\* C13: the orders a listing returns are, once each, the fetched rows that
\* have a rider and no completion time (InProgress), that have a completion
\* time (Completed), or all the fetched rows (All).
C13_FilterExact ==
    [][\A t \in Tasks :
          query_orders_return(t) =>
              /\ ret'.kind = "ok"
              /\ IndexedOrders(ret'.val) = Kept(task[t].filter, task[t].rows)
              /\ Len(ret'.val) = Cardinality(Kept(task[t].filter, task[t].rows))]_vars

\* C13 witness: a listing of the orders of all customers returned one order, in progress,
\* while the store holds another order that is completed.
C13_Witness ==
    /\ ret.op = "orders"
    /\ ret.kind = "ok"
    /\ Len(ret.val) = 1
    /\ ret.val[1].indexed_order.rider_id # NULL
    /\ ret.val[1].indexed_order.completed_time = NULL
    /\ ret.val[1].indexed_order \in orders
    /\ \E o \in orders : o.completed_time # NULL

\* What orders (of all customers) and user_orders (of each user) fetch from
\* the store as it is, and what a listing of such rows returns under a filter.
FetchedNow == {sql_select_orders} \cup {sql_select_user_orders(u) : u \in UserIds}
ListedOf(filter, rows) == Range(filter_fits(filter, from_rows(rows)))
Unclaimed(rows) == {o \in rows : o.rider_id = NULL /\ o.completed_time = NULL}

\* C14 as claimed: on every reachable store, what filter All returns is the
\* union of what InProgress returns and what Completed returns.
C14_AllIsUnion ==
    \A rows \in FetchedNow :
        ListedOf("All", rows) =
            ListedOf("InProgress", rows) \cup ListedOf("Completed", rows)

\* C14 as amended: on every reachable store, what filter All returns is the
\* union of what InProgress returns, what Completed returns and the fetched
\* orders that have neither a rider nor a completion time.
C14_AllIsUnionWithUnclaimed ==
    \A rows \in FetchedNow :
        ListedOf("All", rows) =
            ListedOf("InProgress", rows) \cup ListedOf("Completed", rows)
                \cup Unclaimed(rows)

\* C14 witness: a listing has returned both stored orders, one in progress
\* and one nobody has taken.
C14_Witness ==
    /\ ret.op = "orders"
    /\ ret.kind = "ok"
    /\ IndexedOrders(ret.val) = orders
    /\ ListedOf("InProgress", orders) # {}
    /\ Unclaimed(orders) # {}

(* ------------------------- aggregation claims -------------------------- *)

\* The handler of slot t has failed with the consistency fault (or on the
\* store, at the same fetch).
Faulted(t) ==
    /\ task'[t] = IdleTask
    /\ ret'.op = task[t].op
    /\ ret'.kind \in {MergeError, StoreError}

\* C15: in query_food, user_cart, user_favorites and order_items, when a row
\* fetched refers to a category or a food that is not in the set fetched
\* before, the handler fails with the consistency fault; when it goes on, or
\* returns Ok, every row fetched is in what it built.
C15_MergeFault ==
    [][\A t \in Tasks :
          /\ (Reading(t) /\ task[t].pc = "query_food" /\ query_food_rows(t)) =>
                 LET rows == sql_select_food_of(task[t].op, task[t].user_id) IN
                 IF \E f \in rows : food_category[f] \notin task[t].categories
                 THEN Faulted(t) /\ ret'.kind # "ok"
                 ELSE task'[t].pc = "rows" => task'[t].food = rows
          /\ (task[t].op = "user_cart" /\ task[t].pc = "rows" /\ user_cart_rows(t)) =>
                 LET rows == sql_select_user_cart(task[t].user_id) IN
                 IF \E r \in rows : r.food_id \notin task[t].food
                 THEN Faulted(t)
                 ELSE ret'.kind = "ok" =>
                          /\ {i.id : i \in Range(ret'.val.items)} = {r.id : r \in rows}
                          /\ Len(ret'.val.items) = Cardinality(rows)
          /\ (task[t].op = "user_favorites" /\ task[t].pc = "rows"
              /\ user_favorites_rows(t)) =>
                 LET rows == sql_select_user_favorites(task[t].user_id) IN
                 IF \E r \in rows : r.food_id \notin task[t].food
                 THEN Faulted(t)
                 ELSE ret'.kind = "ok" =>
                          /\ Range(ret'.val) = rows
                          /\ Len(ret'.val) = Cardinality(rows)
          /\ (Listing(t) /\ task[t].pc = "order_items"
              /\ query_orders_order_items(t)) =>
                 LET rows == sql_select_order_items(indexed_order(t).id) IN
                 IF \E r \in rows : r.food_id \notin task[t].food
                 THEN Faulted(t)
                 ELSE task'[t].pc = "order_feedback" =>
                          /\ Pairs(task'[t].items) = Pairs(rows)
                          /\ Cardinality(task'[t].items) = Cardinality(rows)]_vars

\* C15 witness: user_cart has failed with the consistency fault while the
\* cart holds a line.
C15_Witness ==
    /\ ret.op = "user_cart"
    /\ ret.kind = MergeError
    /\ UserCart(users[ret.caller]) # {}

\* (reached too: the fault in user_favorites, in a listing of orders, and in
\* query_food for a category added after the categories were fetched)
FaultInFavorites == ret.op = "user_favorites" /\ ret.kind = MergeError
FaultInOrderItems == ret.op = "user_orders" /\ ret.kind = MergeError
FaultInQueryFood ==
    /\ ret.op = "user_cart"
    /\ ret.kind = MergeError
    /\ \E c \in cart : food_category[c.food_id] = NewCategory

\* Every stored order has at least one line item (holds in SpecList, where
\* orders are only taken, completed, rated or cancelled with their items).
StoredWithItems == \A o \in orders : ItemsOf(o.id) # {}

\* C16: a listing of orders that returns Ok returns every order with line
\* items, as each stored order has them at every instant of the read
\* (violated: an order cancelled between the fetch of the orders and the fetch
\* of its items is returned with no items and no fault).
C16_ListedAtOneInstant ==
    /\ StoredWithItems
    /\ (ret.op \in {"orders", "user_orders"} /\ ret.kind = "ok") =>
           \A i \in DOMAIN ret.val : ret.val[i].items # {}

(* ------------------------- one row per pair --------------------------- *)

\* The rows of a table are one per (user, food).
OnePerPair(rows) ==
    \A r1 \in rows : \A r2 \in rows :
        (r1.user_id = r2.user_id /\ r1.food_id = r2.food_id) => r1 = r2

\* C17: the cart and the favorites hold at most one row per (user, food), and
\* an insert for a pair that is there already is rejected and adds no row.
C17_OnePerPair ==
    /\ [](OnePerPair(cart) /\ OnePerPair(favorites))
    /\ [][/\ (ret'.op = "add_user_favorite"
              /\ add_user_favorite(ret'.caller, ret'.id)
              /\ ~food_per_user(users[ret'.caller], ret'.id)) =>
                  (favorites' = favorites /\ ret'.kind = StoreError)
          /\ ret'.op = "add_user_cart_item" =>
                 \A n \in DOMAIN users : \A f \in Foods : \A c \in Counts :
                     (add_user_cart_item(n, f, c) /\ ~food_per_customer(users[n], f)) =>
                         (cart' = cart /\ ret'.kind = StoreError)]_vars

\* C17 witness: ann's insert of a favorite she has already was rejected, with
\* room left for a row.
C17_Witness ==
    /\ ret.op = "add_user_favorite"
    /\ ret.kind = StoreError
    /\ ret.caller = "ann"
    /\ ~food_per_user(users["ann"], ret.id)
    /\ nextFavoriteId <= MaxFavoriteId

\* (reached too: the same for a cart line)
CartPairRejected ==
    /\ ret.op = "add_user_cart_item"
    /\ ret.kind = StoreError
    /\ \E c1 \in cart : c1.user_id = 1
    /\ nextCartId <= MaxCartId

(* ------------------------------ sorting -------------------------------- *)

\* The ids of a Vec of rows, in its order.
Ids(v) == [i \in DOMAIN v |-> v[i].id]

\* v holds each of the rows once and nothing else.
IsPermutation(v, rows) ==
    /\ Len(v) = Cardinality(rows)
    /\ {v[i].id : i \in DOMAIN v} = {r.id : r \in rows}

\* v is in the order of the comparator, in the direction asked for.
IsOrdered(v, by, sort_order) ==
    \A i \in DOMAIN v : \A j \in DOMAIN v :
        i < j => IF sort_order = "Ascending"
                 THEN cmp_key(by, v[i]) <= cmp_key(by, v[j])
                 ELSE cmp_key(by, v[i]) >= cmp_key(by, v[j])

\* What the claim asks of a result v for the fetched rows.
SortedAsAsked(v, rows, by, sort_order) ==
    /\ IsPermutation(v, rows)
    /\ IsOrdered(v, by, sort_order)
    /\ sort_order = "Descending" =>
           Ids(v) = reverse(Ids(sorted_rows(from_rows(rows), by, "Ascending")))

\* C18: what food_in_category and user_cart return is a permutation of the
\* rows fetched, in the order of the comparator, and a Descending result is
\* the reverse of the Ascending one for the same rows, ties included (a call
\* of food_in_category that returns Ok returns the fetched rows sorted as its
\* arguments ask: those are the by and o the result is checked for).
C18_Sorted ==
    [][/\ (ret'.op = "food_in_category" /\ ret'.kind = "ok") =>
              \A by \in SortFoodBys : \A o \in SortOrders :
                  ret'.val = sorted_rows(from_rows(sql_select_food_in_category(ret'.id)),
                                         by, o) =>
                      SortedAsAsked(ret'.val, sql_select_food_in_category(ret'.id),
                                    by, o)
       /\ \A t \in Tasks :
              (task[t].op = "user_cart" /\ task[t].pc = "rows"
               /\ user_cart_rows(t) /\ ret'.kind = "ok") =>
                  SortedAsAsked(ret'.val.items, sql_select_user_cart(task[t].user_id),
                                task[t].sort_by, task[t].sort_order)]_vars

\* C18 witness: food_in_category has returned every food of the catalog,
\* descending by title, two rows of one title in the reverse of their
\* fetched order.
C18_Witness ==
    /\ ret.op = "food_in_category"
    /\ ret.kind = "ok"
    /\ Len(ret.val) = MaxFoodId
    /\ IsOrdered(ret.val, "Title", "Descending")
    /\ ret.val[1].title > ret.val[Len(ret.val)].title
    /\ \E i \in DOMAIN ret.val : \E j \in DOMAIN ret.val :
           i < j /\ ret.val[i].title = ret.val[j].title /\ ret.val[i].id > ret.val[j].id

\* (reached too: a cart returned descending by count, with a tie)
CartDescendingWithTie ==
    /\ ret.op = "user_cart"
    /\ ret.kind = "ok"
    /\ Len(ret.val.items) = MaxFoodId
    /\ ret.val.items[1].count > ret.val.items[MaxFoodId].count
    /\ \E i \in 1..MaxFoodId : \E j \in 1..MaxFoodId :
           /\ i < j
           /\ ret.val.items[i].count = ret.val.items[j].count
           /\ ret.val.items[i].id > ret.val.items[j].id

(* ------------------------------- totals -------------------------------- *)

\* Unit price times quantity, summed over a set of cart rows or line items.
RECURSIVE PriceOf(_)
PriceOf(rows) ==
    IF rows = {} THEN 0
    ELSE LET r == CHOOSE x \in rows : TRUE
         IN food_price[r.food_id] * r.count + PriceOf(rows \ {r})

\* The sum of the total_price of the lines of a Vec.
RECURSIVE SumOfLines(_)
SumOfLines(v) ==
    IF v = <<>> THEN 0 ELSE Head(v).total_price + SumOfLines(Tail(v))

\* Each line of a set or Vec has the total its food's price and its count give.
LinesPriced(lines) ==
    \A l \in lines : l.total_price = food_price[l.food_id] * l.count

\* C19: in a cart that user_cart returns and in each order a listing returns,
\* every line's total_price is the food's price times the line's quantity and
\* the total_price is the sum of the lines'; an order that a successful
\* checkout has created is listed with the total of the cart checked out.
C19_Totals ==
    /\ (Returned("user_cart") /\ ret.kind = "ok") =>
           /\ LinesPriced(Range(ret.val.items))
           /\ ret.val.total_price = SumOfLines(ret.val.items)
           /\ ret.val.total_price = PriceOf(UserCart(users[ret.caller]))
    /\ (Returned("user_orders") /\ ret.kind = "ok") =>
           \A k \in DOMAIN ret.val :
               LET o == ret.val[k] IN
               /\ LinesPriced(o.items)
               /\ o.total_price = PriceOf(o.items)
               /\ (/\ o.indexed_order \notin before.orders
                   /\ Cart0 # {}
                   /\ UserCart(before.user_id) = {}) =>
                       o.total_price = PriceOf(Cart0)

\* C19 witness: after the checkout of the cart of 2 x 5.00 and 1 x 3.50, the
\* listing has returned the order with the total 13.50.
C19_Witness ==
    /\ Returned("user_orders")
    /\ ret.kind = "ok"
    /\ Pairs(Cart0) = {<<1, 2>>, <<2, 1>>}
    /\ UserCart(before.user_id) = {}
    /\ \E k \in DOMAIN ret.val :
           /\ ret.val[k].indexed_order \notin before.orders
           /\ ret.val[k].total_price = 1350

\* (reached too: user_cart has returned that cart with the total 13.50)
CartOf1350 ==
    /\ Returned("user_cart")
    /\ ret.kind = "ok"
    /\ Len(ret.val.items) = 2
    /\ ret.val.total_price = 1350

(* ------------------------- placed order lines -------------------------- *)

\* The orders that checkouts have made: those no checkout in flight is making.
Placed ==
    {o.id : o \in {x \in orders :
                       \A t \in Tasks : ~(task[t].op = "make_order_from_user_cart"
                                          /\ task[t].order_id = x.id)}}

\* The (food, quantity) pairs of an order's line items among the rows.
PairsIn(rows, order_id) == Pairs({i \in rows : i.order_id = order_id})

\* C20: a step of any handler leaves the (food, quantity) pairs of every
\* placed order as they are, unless it is the cancellation of that order,
\* which removes the order.
C20_PlacedLinesKept ==
    [][\A id \in Placed :
          \/ PairsIn(order_food', id) = PairsIn(order_food, id)
          \/ /\ ret'.op = "delete_untaken_user_order"
             /\ ret'.kind = "ok"
             /\ ret'.id = id
             /\ \A o \in orders' : o.id # id]_vars

\* C20 witness: the order that ann's checkout made of her cart of two lines
\* has been taken, completed and rated, and holds the two lines.
C20_Witness ==
    /\ scene = "lifecycle"
    /\ \E o \in orders :
           /\ o.id \in Placed
           /\ o.rider_id # NULL
           /\ o.completed_time # NULL
           /\ \E f \in feedbacks : f.order_id = o.id
           /\ PairsIn(order_food, o.id) = {<<1, 2>>, <<2, 1>>}

\* (reached too: two placed orders with lines, after cart additions and a
\* later checkout; and a placed order cancelled)
TwoPlaced ==
    /\ scene = "carts"
    /\ Cardinality(Placed) = 2
    /\ \A id \in Placed : PairsIn(order_food, id) # {}
    /\ AllIdle
PlacedCancelled ==
    /\ ret.op = "delete_untaken_user_order"
    /\ ret.kind = "ok"
    /\ ret.val = TRUE
    /\ orders = {}
    /\ order_food = {}
    /\ nextOrderId > 1

(* ------------------------------- roles --------------------------------- *)

\* The role of the user of a username that resolves to a user.
RoleOf(username) == (CHOOSE u \in user_table : u.username = username).role

OwnRows(table, username, id) ==
    {r \in table : username \in DOMAIN users /\ r.user_id = users[username] /\ r.id = id}

\* A delete by id returned: with no row of the caller's under the id the
\* table is as it was and the result is false (or the store failed); the
\* result is true only when exactly the caller's row of that id went.
DeleteById(table, tableAfter, username, id) ==
    LET own == OwnRows(table, username, id) IN
    /\ IF ret'.kind # "ok" THEN tableAfter = table
       ELSE IF own = {} THEN ret'.val = FALSE /\ tableAfter = table
       ELSE ret'.val = TRUE /\ tableAfter = table \ own /\ Cardinality(own) = 1

\* C22: delete_user_address, delete_user_favorite and delete_user_cart_item
\* with an id of no row or of another user's row return false and leave every
\* row as it was; they return true only when the caller's row was removed.
C22_DeletesOwnRowOnly ==
    [][/\ (/\ ret'.op = "delete_user_address"
           /\ ret'.caller \in DOMAIN users
           /\ delete_user_address(ret'.caller, ret'.id))
          => /\ DeleteById(addresses, addresses', ret'.caller, ret'.id)
             /\ UNCHANGED <<cart, favorites, user_table>>
       /\ (/\ ret'.op = "delete_user_favorite"
           /\ ret'.caller \in DOMAIN users
           /\ delete_user_favorite(ret'.caller, ret'.id))
          => /\ DeleteById(favorites, favorites', ret'.caller, ret'.id)
             /\ UNCHANGED <<cart, addresses, user_table>>
       /\ ret'.op = "delete_user_cart_item"
          => \A n \in DOMAIN users : \A id \in AccountIds :
                 delete_user_cart_item(n, id)
                 => /\ DeleteById(cart, cart', n, id)
                    /\ UNCHANGED <<favorites, addresses, user_table>>]_vars

\* ann asked to delete bob's address and then an address of nobody's: false
\* came back and bob's address is still there.
C22_Witness ==
    /\ scene = "deletes"
    /\ ret.op = "delete_user_address"
    /\ ret.caller = "ann"
    /\ ret.id = 2
    /\ ret.kind = "ok"
    /\ ret.val = FALSE
    /\ [id |-> 2, user_id |-> 2] \in addresses
    /\ [id |-> 1, user_id |-> 1] \notin addresses

(* --------------------------- unknown usernames ------------------------- *)

\* A handler called with this username, whatever its other inputs.
CalledBy(username) ==
    \/ \E f \in Foods, c \in Counts : add_user_cart_item(username, f, c)
    \/ \E id \in AccountIds : delete_user_cart_item(username, id)
    \/ \E f \in Foods : add_user_favorite(username, f)
    \/ \E id \in AccountIds : delete_user_favorite(username, id)
    \/ add_user_address(username)
    \/ \E id \in AccountIds : delete_user_address(username, id)
    \/ \E id \in AccountIds : take_order(username, id)
    \/ \E id \in AccountIds : complete_order(username, id, 2)
    \/ \E id \in AccountIds : delete_untaken_user_order(username, id)
    \/ \E t \in Tasks :
           \/ \E a \in AccountIds : make_order_start(t, username, a)
           \/ \E f \in AccountFeedbacks : add_user_feedback_start(t, username, f)
           \/ \E by \in SortCartBys, o \in SortOrders : user_cart_start(t, username, by, o)
           \/ user_favorites_start(t, username)
           \/ \E f \in OrdersFilters : user_orders_start(t, username, f)

\* Client::set_user_role resolving a username of no user.
RoleOfUnknown(t) ==
    /\ task[t].op = "set_user_role"
    /\ task[t].pc = "user_id"
    /\ task[t].username \notin DOMAIN users
    /\ set_user_role_user_id(t)

\* The call failed and sent no statement that changes a row: every table is
\* as it was and no task is left in flight by the call.
FailedUnchanged ==
    /\ ret'.kind = StoreError
    /\ UNCHANGED <<store, favorites, nextFavoriteId, accounts, took>>
    /\ \A t \in Tasks : task'[t].pc = "idle"

RoleOfUnknownAsked ==
    \E t \in Tasks : /\ task[t].op = "set_user_role"
                     /\ task[t].pc = "user_id"
                     /\ task[t].username = "nobody"

(* ------------------------ one line item per food ----------------------- *)

\* C24: an order has at most one line item per food, whatever cart additions
\* and checkouts of the same user interleave.
C24_OneLinePerFood ==
    \A i1 \in order_food : \A i2 \in order_food :
        (i1.order_id = i2.order_id /\ i1.food_id = i2.food_id) => i1 = i2

\* A checkout has written a line item of its order while the same user's cart
\* holds a row that was added after the checkout read the cart.
C24_Witness ==
    \E t \in Tasks :
        /\ task[t].op = "make_order_from_user_cart"
        /\ task[t].inserted >= 1
        /\ \E i \in order_food : i.order_id = task[t].order_id
        /\ \E c \in cart :
               /\ c.user_id = task[t].user_id
               /\ \A k \in DOMAIN task[t].cart_items :
                      task[t].cart_items[k].food_id # c.food_id

(* --------------------------- feedback contents ------------------------- *)

\* C25: every stored feedback has a rating or a comment, and a rating that is
\* present lies in 0..5.
C25_FeedbackWellFormed ==
    \A f \in feedbacks :
        /\ ~(is_none(f.rating) /\ is_none(f.comment))
        /\ \A r \in f.rating : r \in 0..5

\* The half of C25 that the code keeps: no stored feedback is empty.
FeedbackHasContent ==
    \A f \in feedbacks : ~(is_none(f.rating) /\ is_none(f.comment))

(* ------------------------------ sign-ups ------------------------------- *)

\* C26: a username belongs to one user, so user_by_name's statement never
\* finds two rows; a sign-up with a username in use is rejected and adds no
\* user.
C26_OneUserPerName ==
    /\ [](\A u1 \in user_table : \A u2 \in user_table :
              u1.username = u2.username => u1 = u2)
    /\ [](\A n \in SignUpNames \cup {"bob"} :
              Cardinality(sql_select_user_by_name(n)) <= 1)
    /\ [][(/\ ret'.op = "add_user"
           /\ add_user(ret'.caller)
           /\ ret'.caller \in DOMAIN users)
          => (user_table' = user_table /\ ret'.kind = StoreError)]_vars

\* cat signed up, and a second sign-up as cat was rejected with room left for
\* a user.
C26_Witness ==
    /\ scene = "signup"
    /\ ret.op = "add_user"
    /\ ret.caller = "cat"
    /\ ret.kind = StoreError
    /\ Cardinality({u \in user_table : u.username = "cat"}) = 1
    /\ nextUserId <= MaxUserId

(* ------------------------------- managers ------------------------------ *)

\* C27: whatever set_user_role mutations interleave, a Manager remains.
C27_ManagerRemains ==
    scene = "roles" => \E u \in user_table : u.role = "Manager"

(* --------------------------- lifecycle order --------------------------- *)

\* Unclaimed, Claimed, Completed as 0, 1, 2.
Stage(order) ==
    IF order.completed_time # NULL THEN 2
    ELSE IF order.rider_id # NULL THEN 1 ELSE 0

\* C28: an order never moves backwards in Unclaimed, Claimed, Completed; its
\* rider, once set, and its completion time, once set, stay what they are; a
\* completed order has a rider; no order fits both InProgress and Completed.
C28_LifecycleForward ==
    /\ [](\A o \in orders :
              /\ o.completed_time # NULL => o.rider_id # NULL
              /\ ~(fits("InProgress", o) /\ fits("Completed", o)))
    /\ [][\A o \in orders : \A p \in orders' :
              p.id = o.id =>
                  /\ Stage(p) >= Stage(o)
                  /\ o.rider_id # NULL => p.rider_id = o.rider_id
                  /\ o.completed_time # NULL => p.completed_time = o.completed_time]_vars

\* An order went all the way: bob took order 1 and completed it, and a later
\* take of it by ann changed nothing.
C28_Witness ==
    /\ ret.op = "take_order"
    /\ ret.caller = "ann"
    /\ ret.id = 1
    /\ ret.kind = "ok"
    /\ \E o \in orders : o.id = 1 /\ o.rider_id = users["bob"] /\ o.completed_time # NULL

(* ---------------------- listings and line items ------------------------ *)

\* C29: a listing of orders never returns an order with no line items, also
\* when a checkout or a cancellation runs beside it.
C29_NoEmptyOrderListed ==
    (ret.op \in {"orders", "user_orders"} /\ ret.kind = "ok") =>
        \A i \in DOMAIN ret.val : ret.val[i].items # {}

(* -------------------------- take against cancel ------------------------ *)

\* C30: of a take and a cancellation of one unclaimed order at most one
\* returns true: a cancellation returns true only for an order nobody took,
\* and a take returns true only for an order that is stored (not cancelled).
C30_TakeOrCancel ==
    [][/\ (/\ ret'.op = "delete_untaken_user_order"
           /\ delete_untaken_user_order(ret'.caller, ret'.id)
           /\ ret'.kind = "ok"
           /\ ret'.val = TRUE)
          => /\ \A u \in UserIds : <<u, ret'.id>> \notin took
             /\ \A o \in orders' : o.id # ret'.id
       /\ (/\ ret'.op = "take_order"
           /\ take_order(ret'.caller, ret'.id)
           /\ ret'.kind = "ok"
           /\ ret'.val = TRUE)
          => \E o \in orders : /\ o.id = ret'.id
                               /\ o.rider_id = NULL
                               /\ [o EXCEPT !.rider_id = users[ret'.caller]] \in orders']_vars

\* bob took ann's order 2 first; ann's cancellation of it then returned false
\* and the order is still stored.
C30_Witness ==
    /\ ret.op = "delete_untaken_user_order"
    /\ ret.caller = "ann"
    /\ ret.id = 2
    /\ ret.kind = "ok"
    /\ ret.val = FALSE
    /\ <<users["bob"], 2>> \in took
    /\ \E o \in orders : o.id = 2 /\ o.rider_id = users["bob"]

(* ---------------------------- fresh orders ----------------------------- *)

\* An order no rider has taken.
Untaken(order) == \A u \in UserIds : <<u, order.id>> \notin took

\* C31: the order a checkout creates has the acting user as customer, no
\* rider and no completion time; until a rider takes it, it fits All and
\* neither InProgress nor Completed.
C31_FreshOrderUnclaimed ==
    /\ [](\A o \in orders :
              Untaken(o) => /\ o.rider_id = NULL
                            /\ o.completed_time = NULL
                            /\ fits("All", o)
                            /\ ~fits("InProgress", o)
                            /\ ~fits("Completed", o))
    /\ [][\A t \in Tasks :
              (/\ task[t].pc = "insert_order"
               /\ make_order_insert_order(t)
               /\ orders' # orders)
              => \E o \in orders' :
                     /\ orders' = orders \cup {o}
                     /\ o.id \notin {x.id : x \in orders}
                     /\ o.customer_id = users[FrameBuyers[t]]
                     /\ o.rider_id = NULL
                     /\ o.completed_time = NULL]_vars

\* ann's checkout returned her new order, which nobody has taken.
C31_Witness ==
    /\ scene = "lifecycle"
    /\ ret.op = "make_order_from_user_cart"
    /\ ret.kind = "ok"
    /\ \E o \in orders : /\ o.id = ret.val
                         /\ o.customer_id = users["ann"]
                         /\ Untaken(o)

(* -------------------------- delivery addresses ------------------------- *)

\* The address is one of the user's.
OwnAddress(address_id, user_id) ==
    \E a \in addresses : a.id = address_id /\ a.user_id = user_id

OwnAddressOrdered ==
    /\ scene = "checkout"
    /\ \E o \in orders : o.customer_id = users["bob"] /\ o.address_id = 2

(* ------------------------- frame of a checkout ------------------------- *)

\* What a step of the checkout of user_id that is making order_id (NULL
\* before the header is inserted) must keep: the other users' cart rows, the
\* stored headers, the line items of the other orders, and the feedback.
CheckoutKeeps(user_id, order_id) ==
    /\ {c \in cart : c.user_id # user_id} = {c \in cart' : c.user_id # user_id}
    /\ orders \subseteq orders'
    /\ {i \in order_food : i.order_id # order_id}
           = {i \in order_food' : i.order_id # order_id}
    /\ order_id = NULL => order_food' = order_food
    /\ feedbacks' = feedbacks

\* C33: a checkout of one user changes no cart row of another user and no
\* order stored before it (header, line items, feedback), whether it
\* succeeds or fails.
C33_CheckoutFrame ==
    [][\A t \in Tasks :
           /\ (/\ task[t].pc = "idle"
               /\ make_order_start(t, FrameBuyers[t], users[FrameBuyers[t]]))
              => UNCHANGED store
           /\ (/\ task[t].op = "make_order_from_user_cart"
               /\ make_order_step(t))
              => CheckoutKeeps(users[FrameBuyers[t]],
                               IF task[t].pc = "insert_food" THEN task[t].order_id
                               ELSE NULL)]_vars

\* bob's checkout returned his order while ann's order, made before, is
\* stored with a line item.
C33_Witness ==
    /\ ret.op = "make_order_from_user_cart"
    /\ ret.kind = "ok"
    /\ \E o \in orders : o.id = ret.val /\ o.customer_id = users["bob"]
    /\ \E o \in orders : /\ o.customer_id = users["ann"]
                         /\ \E i \in order_food : i.order_id = o.id

\* A checkout failed for its empty cart while a feedback is stored.
FailedBesideFeedback ==
    /\ ret.op = "make_order_from_user_cart"
    /\ ret.kind = EmptyCartError
    /\ feedbacks # {}

(* ----------------------- roles of the resolvers ------------------------ *)

\* Whether the user of a username has the role a resolver asks for.
HasRole(op, username) ==
    /\ username \in DOMAIN users
    /\ op \in ManagerResolvers => RoleOf(username) = "Manager"
    /\ op \in StaffResolvers => RoleOf(username) # "Customer"
Tables == <<store, favorites, nextFavoriteId, catalog, accounts, notes>>
\* What the last return says of its call and its outcome.
Answer == <<ret.op, ret.kind, ret.caller, ret.id>>

\* C34: a resolver behind a role answers a caller without the role with
\* "access denied" (or the failure of the fetch of the current user) before
\* it changes or reads the store: the call returns at once and leaves every
\* table as it was; only a caller with the role gets past the check, the
\* check itself changes nothing, and a table is changed or a protected
\* listing returned only by a call that got past it.
C34_RoleBeforeStore ==
    [][/\ (/\ task' = task
           /\ ret'.op \in RoleResolvers
           /\ ~HasRole(ret'.op, ret'.caller))
          => /\ ret'.kind \in {AccessDenied, StoreError}
             /\ UNCHANGED Tables
       /\ ret'.kind = AccessDenied /\ Answer' # Answer => UNCHANGED Tables
       /\ \A t \in Tasks :
              (task[t].pc = "idle" /\ task'[t].pc # "idle")
              => /\ task'[t].pc = "allowed"
                 /\ HasRole(task'[t].op, task'[t].current_user)
                 /\ UNCHANGED Tables
       /\ Tables' # Tables
          => \E t \in Tasks : /\ task[t].pc \in {"allowed", "notify"}
                              /\ task'[t] # task[t]
       /\ (Answer' # Answer /\ ret'.kind = "ok" /\ ret'.op \in {"users", "orders"})
          => \E t \in Tasks : /\ task[t].op = ret'.op
                              /\ task[t].pc # "idle"
                              /\ task'[t].pc = "idle"]_vars

\* The customer ann was denied a direct notification after a notification of
\* a caller with the role was stored.
C34_Witness ==
    /\ ret.op = "send_direct_notification"
    /\ ret.kind = AccessDenied
    /\ ret.caller = "ann"
    /\ notifications # {}
    /\ AllIdle

\* The rider bob was denied the deletion of a food added by the manager.
DeniedBesideAddedFood ==
    /\ ret.op = "delete_food"
    /\ ret.kind = AccessDenied
    /\ ret.caller = "bob"
    /\ 3 \in DOMAIN food_category

(* ---------------------------- role changes ----------------------------- *)

\* C35: the role of a user changes only in the update of a set_user_role
\* whose caller is another user and was a Manager when the resolver looked at
\* the caller's role; a user who signs up is a Customer whatever role the
\* request carries; no step removes a user.
C35_RoleChanges ==
    [][/\ \A u \in user_table :
              /\ \E v \in user_table' : v.id = u.id /\ v.username = u.username
              /\ \A v \in user_table' :
                     (v.id = u.id /\ v.role # u.role)
                     => \E t \in Tasks :
                            /\ task[t].op = "set_user_role"
                            /\ task[t].pc = "update"
                            /\ task'[t].pc = "idle"
                            /\ task[t].user_id = u.id
                            /\ task[t].role = v.role
                            /\ task[t].current_user # u.username
       /\ \A v \in user_table' : v.id \notin UserIds => v.role = "Customer"
       /\ \A t \in Tasks :
              (/\ task[t].pc = "idle"
               /\ task'[t].op = "set_user_role"
               /\ task'[t].pc # "idle")
              => /\ task'[t].current_user \in DOMAIN users
                 /\ RoleOf(task'[t].current_user) = "Manager"
                 /\ task'[t].current_user # task'[t].username]_vars

\* The manager ann made bob a customer, and the set_user_role returned true.
C35_Witness ==
    /\ scene = "roles"
    /\ ret.op = "set_user_role"
    /\ ret.kind = "ok"
    /\ ret.caller = "ann"
    /\ \E u \in user_table : u.username = "bob" /\ u.role = "Customer"

\* dan signed up and is a customer.
SignedUpAsCustomer ==
    /\ scene = "signup"
    /\ ret.op = "add_user"
    /\ ret.kind = "ok"
    /\ \E u \in user_table : u.username = "dan" /\ u.role = "Customer"

(* ---------------------------- notifications ---------------------------- *)

\* The users of a role, and the users the notifications of some ids went to.
UsersOfRole(role) == {u.id : u \in {x \in user_table : x.role = role}}
NotifiedBy(ids) == {n.user_id : n \in {x \in notifications' : x.id \in ids}}

\* C36: add_notifications(role, n), the roles being left alone meanwhile,
\* stores one notification for each user of the role and none for another
\* user, and returns the ids of those it stored, one for each: every turn of
\* its loop stores one new notification, for a user of the role not notified
\* yet, and pushes its id; when an insert fails the call fails and the
\* notifications stored in the earlier turns stay.
C36_Broadcast ==
    [][\A t \in Tasks :
           (/\ task[t].op = "broadcast_notification"
            /\ task'[t] # task[t])
           => LET targets == UsersOfRole(task[t].role)
                  done == Range(task[t].listed) IN
              /\ task[t].pc = "allowed"
                 => /\ notifications' = notifications
                    /\ task'[t].pc = "notify"
                       => {u.id : u \in task'[t].rows} = targets /\ targets # {}
                    /\ (task'[t].pc = "idle" /\ ret'.kind = "ok")
                       => targets = {} /\ ret'.val = <<>>
              /\ task[t].pc = "notify"
                 => /\ done \subseteq {n.id : n \in notifications}
                    /\ Cardinality(done) = Len(task[t].listed)
                    /\ NotifiedBy(done) \cup {u.id : u \in task[t].rows} = targets
                    /\ ret'.kind = StoreError \/ task'[t].pc = "notify"
                       \/ ret'.kind = "ok"
                    /\ (task'[t].pc = "idle" /\ ret'.kind # "ok")
                       => notifications' = notifications
                    /\ task'[t].pc = "notify"
                       => \E n \in notifications' \ notifications :
                              /\ notifications' = notifications \cup {n}
                              /\ n.user_id \in targets \ NotifiedBy(done)
                              /\ task'[t].listed = Append(task[t].listed, n.id)
                              /\ n.user_id \notin {u.id : u \in task'[t].rows}
                    /\ (task'[t].pc = "idle" /\ ret'.kind = "ok")
                       => /\ Len(ret'.val) = Cardinality(targets)
                          /\ Cardinality(Range(ret'.val)) = Len(ret'.val)
                          /\ NotifiedBy(Range(ret'.val)) = targets
                          /\ Cardinality({n \in notifications' :
                                              n.id \in Range(ret'.val)})
                                 = Cardinality(targets)
                          /\ Cardinality(notifications' \ notifications) = 1]_vars

\* A broadcast to the customers returned two ids, of a notification for ann
\* and one for dan, and no other notification is stored.
C36_Witness ==
    /\ ret.op = "broadcast_notification"
    /\ ret.kind = "ok"
    /\ AllIdle
    /\ Cardinality(notifications) = 2
    /\ {n.user_id : n \in notifications} = {1, 4}
    /\ \A n \in notifications : n.user_id \in UsersOfRole("Customer")

\* A broadcast failed while one notification is stored and no other was
\* ever inserted.
BroadcastFailedHalfway ==
    /\ ret.op = "broadcast_notification"
    /\ ret.kind = StoreError
    /\ AllIdle
    /\ Cardinality(notifications) = 1
    /\ nextNotificationId = 2

(* ----------------------- filter before hydration ----------------------- *)

\* The fetches that complete an order to an Order.
Hydrating(t) ==
    /\ task[t].op \in {"orders", "user_orders"}
    /\ task[t].pc \in {"order_food", "order_items", "order_feedback"}

\* C37: query_orders drops the fetched orders that do not fit the filter
\* before its loop: the loop has one turn for each fetched order that fits and
\* none for another, every fetch of the loop is for an order that fit when it
\* was fetched, and so a listing fails in its loop only at an order that fits;
\* an order that does not fit cannot fail it.
C37_FilterBeforeHydration ==
    /\ [](\A t \in Tasks :
              Hydrating(t)
              => /\ indexed_order(t) \in task[t].rows
                 /\ fits(task[t].filter, indexed_order(t)))
    /\ [][\A t \in Tasks :
              /\ (task[t].pc = "idle" /\ task'[t].op \in {"orders", "user_orders"}
                                      /\ task'[t].pc # "idle")
                 => /\ Range(task'[t].indexed_orders)
                           = {o \in task'[t].rows : fits(task'[t].filter, o)}
                    /\ Len(task'[t].indexed_orders)
                           = Cardinality(Range(task'[t].indexed_orders))
              /\ (Hydrating(t) /\ task'[t].pc = "idle")
                 => /\ ret'.kind # "ok"
                    /\ fits(task[t].filter, indexed_order(t))
              /\ (/\ task[t].op \in {"orders", "user_orders"}
                  /\ task[t].pc # "idle"
                  /\ task'[t].pc = "idle"
                  /\ ret'.kind = MergeError)
                 => /\ Hydrating(t)
                    /\ fits(task[t].filter, indexed_order(t))]_vars

\* A listing of the completed orders fetched ann's two orders and completes
\* the first alone, while the second, which no rider took, is stored with a
\* part of its lines: completing it could be the consistency fault.
C37_Witness ==
    /\ task[1].op = "user_orders"
    /\ task[1].filter = "Completed"
    /\ task[1].pc = "order_items"
    /\ {o.id : o \in task[1].rows} = {1, 2}
    /\ Len(task[1].indexed_orders) = 1
    /\ \E o \in orders : o.id = 2 /\ o.rider_id = NULL
    /\ Cardinality(ItemsOf(2)) = 1
    /\ task[2].op = "make_order_from_user_cart"
    /\ task[2].pc = "insert_food"

\* A listing of all the orders failed at ann's second order.
FaultAtFittingOrder ==
    /\ ret.op = "user_orders"
    /\ ret.kind = MergeError
    /\ \E o \in orders : o.id = 2

(* ----------------------------- fail closed ----------------------------- *)

\* C38: a request reaches a service wrapped in auth_validator only when the
\* app data holds the Client and the credentials check returned true, that
\* is, the username is a user's and the password is that user's; else (the
\* check returned false or failed, or there is no Client) the response is the
\* authentication error and no service runs: a service answers only a
\* request that passed.
C38_FailsClosed ==
    [][/\ \A t \in Tasks :
              (task[t].pc = "idle" /\ task'[t].pc = "service")
              => /\ scene = "registered"
                 /\ task'[t].current_user \in DOMAIN users
                 /\ task'[t].current_user \in DOMAIN Passwords
                 /\ task'[t].password = Passwords[task'[t].current_user]
                 /\ Answer' = Answer
       /\ (task' = task /\ ret'.op = "auth_validator")
          => /\ ret'.kind = AuthenticationError
             /\ UNCHANGED Tables
       /\ scene = "unregistered" => \A t \in Tasks : task'[t].pc = "idle"
       /\ (ret'.op \in Services /\ Answer' # Answer)
          => \E t \in Tasks : /\ task[t].pc = "service"
                              /\ task[t].op = ret'.op
                              /\ task[t].current_user = ret'.caller
                              /\ task'[t].pc = "idle"
       /\ \A t \in Tasks :
              (task[t].pc = "service" /\ task'[t] # task[t])
              => /\ task'[t].pc = "idle"
                 /\ ret'.op = task[t].op
                 /\ ret'.caller = task[t].current_user]_vars

\* A request of cat was refused, and a request with her password, after
\* her sign-up, passed and waits for its service.
C38_Witness ==
    /\ scene = "registered"
    /\ ret.op = "auth_validator"
    /\ ret.kind = AuthenticationError
    /\ ret.caller = "cat"
    /\ \E t \in Tasks : /\ task[t].pc = "service"
                        /\ task[t].current_user = "cat"
                        /\ task[t].password = Passwords["cat"]

\* The preview service answered ann's request.
PreviewServed ==
    /\ ret.op = "preview"
    /\ ret.kind = "ok"
    /\ ret.caller = "ann"

====
